---- MODULE Spec2Model ----
(***************************************************************************)
(* A model of react-native-pure-storage: the in-memory cache engine        *)
(* (cache.js), the run-length compressor and the value codec (index.js),   *)
(* and the namespaced StorageInstance coordinator (storage-instance.js)    *)
(* over the native key-value backend.                                      *)
(*                                                                         *)
(* JavaScript strings are sequences of one-character strings, byte arrays  *)
(* are sequences of numbers in 0..255, and JavaScript values are tagged    *)
(* records (see "JavaScript values").                                      *)
(***************************************************************************)
EXTENDS Integers, Sequences, FiniteSets, TLC

(***************************************************************************)
(* Bounds of the model.                                                    *)
(***************************************************************************)
MaxCap == 3        \* largest maxSize a cache of SpecCache is built with
MaxSets == 5       \* cache sets counted by stats.sets before set is disabled
MaxGets == 2       \* cache lookups counted by stats before get is disabled
MaxTime == 2       \* largest value of the clock
MaxRuns == 3       \* runs an input of SpecRle is made of
LongRun == 256     \* length of the long run of an input of SpecRle
MaxItems == 2      \* items of an array, properties of an object
MaxBinRuns == 2    \* runs a binary buffer of SpecCodec is made of
MaxTtlSets == 3    \* cache sets made in SpecCacheTtl
MaxOps == 3        \* calls made on the instances of the store specifications

VARIABLES
  now,             \* Date.now(), a logical clock
  engine,          \* SpecCache: the Map/expiry/stats closure of one createCache
  cacheLast,       \* SpecCache: the last cache call and what it returned
  insOrder,        \* SpecCache: history: present keys, earliest insertion first
  hitKeys,         \* SpecCache: history: present keys a get has hit
  freshRun,        \* SpecCache: history: the sets made since construction
  ttlLog,          \* SpecCacheTtl: history: per key, its last set and the gets since
  rleIn,           \* SpecRle: the input byte sequence
  rleOut,          \* SpecRle: the result of compressBinary
  rleBack,         \* SpecRle: the result of decompressBinary
  rlePc,           \* SpecRle: "input", "compressed" or "decompressed"
  codecIn,         \* SpecCodec: the value given to serializeValue
  codecComp,       \* SpecCodec: options.compression
  codecItem,       \* SpecCodec: the item serializeValue returned
  codecOut,        \* SpecCodec: the value deserializeValue returned
  codecPc,         \* SpecCodec: "input", "serialized" or "deserialized"
  backend,         \* SpecStore, SpecBinary: the native store, key -> item
  instances,       \* SpecStore, SpecBinary: id -> [namespace, cache]
  clock,           \* SpecStore, SpecBinary: Date.now()
  storeLast,       \* SpecStore, SpecBinary: the last call and its outcome
  opCount,         \* SpecStore, SpecBinary: the number of calls made
  syncAvailable,   \* RNPureStorage has setItemSync and getItemSync
  inflight,        \* SpecOverlap: the writes started, in the order they started
  globalChangeHandlers,  \* SpecFacade: the Set globalChangeHandlers of index.js
  globalKeyHandlers,     \* SpecFacade: the Map globalKeyHandlers of index.js
  jsiAvailable     \* SpecFacade: JSIStorage.isAvailable

cacheVars == <<now, engine, cacheLast, insOrder, hitKeys, freshRun>>
rleVars == <<rleIn, rleOut, rleBack, rlePc>>
codecVars == <<codecIn, codecComp, codecItem, codecOut, codecPc>>
storeVars == <<backend, instances, clock, storeLast, opCount, syncAvailable>>
ttlVars == <<ttlLog>>
overlapVars == <<inflight>>
facadeVars == <<globalChangeHandlers, globalKeyHandlers, jsiAvailable>>
vars == <<now, engine, cacheLast, insOrder, hitKeys, freshRun, ttlLog,
          rleIn, rleOut, rleBack, rlePc,
          codecIn, codecComp, codecItem, codecOut, codecPc,
          backend, instances, clock, storeLast, opCount, syncAvailable,
          inflight, globalChangeHandlers, globalKeyHandlers, jsiAvailable>>

\* the variables a specification does not use keep a fixed value
IdleCache ==
  /\ now = 0 /\ engine = <<>> /\ cacheLast = <<>> /\ insOrder = <<>>
  /\ hitKeys = {} /\ freshRun = <<>>
IdleTtl == ttlLog = <<>>
IdleRle == rleIn = <<>> /\ rleOut = <<>> /\ rleBack = <<>> /\ rlePc = ""
IdleCodec ==
  /\ codecIn = <<>> /\ codecComp = FALSE /\ codecItem = <<>> /\ codecOut = <<>>
  /\ codecPc = ""
IdleStore ==
  /\ backend = <<>> /\ instances = <<>> /\ clock = 0 /\ storeLast = <<>>
  /\ opCount = 0 /\ syncAvailable = FALSE
IdleOverlap == inflight = <<>>
IdleFacade ==
  globalChangeHandlers = <<>> /\ globalKeyHandlers = <<>> /\ jsiAvailable = FALSE
OtherInit(g) ==
  /\ IF g \in {"cache", "ttl"} THEN TRUE ELSE IdleCache
  /\ IF g = "ttl" THEN TRUE ELSE IdleTtl
  /\ IF g = "rle" THEN TRUE ELSE IdleRle
  /\ IF g = "codec" THEN TRUE ELSE IdleCodec
  /\ IF g \in {"store", "overlap", "facade"} THEN TRUE ELSE IdleStore
  /\ IF g = "overlap" THEN TRUE ELSE IdleOverlap
  /\ IF g = "facade" THEN TRUE ELSE IdleFacade
OtherUnchanged(g) ==
  /\ IF g \in {"cache", "ttl"} THEN TRUE ELSE UNCHANGED cacheVars
  /\ IF g = "ttl" THEN TRUE ELSE UNCHANGED ttlVars
  /\ IF g = "rle" THEN TRUE ELSE UNCHANGED rleVars
  /\ IF g = "codec" THEN TRUE ELSE UNCHANGED codecVars
  /\ IF g \in {"store", "overlap", "facade"} THEN TRUE ELSE UNCHANGED storeVars
  /\ IF g = "overlap" THEN TRUE ELSE UNCHANGED overlapVars
  /\ IF g = "facade" THEN TRUE ELSE UNCHANGED facadeVars

(***************************************************************************)
(* JavaScript values.  A string is Str(chars); a number is Num(n) for an   *)
(* integer n, or NaN, PosInf, NegInf, NegZero; an array is Arr(items); a   *)
(* plain object is Obj(props) with props a sequence of [k, v] in property  *)
(* order; an ArrayBuffer or typed array is a Bin (see "Binary values");    *)
(* Throw(name) is the outcome of a call that throws the error name.        *)
(***************************************************************************)
Undefined == [t |-> "undefined"]
Null == [t |-> "null"]
Num(n) == [t |-> "number", n |-> n]
NaN == [t |-> "number", x |-> "NaN"]
PosInf == [t |-> "number", x |-> "Infinity"]
NegInf == [t |-> "number", x |-> "-Infinity"]
NegZero == [t |-> "number", x |-> "-0"]
Str(chars) == [t |-> "string", s |-> chars]
Bool(b) == [t |-> "boolean", b |-> b]
Arr(items) == [t |-> "array", items |-> items]
Obj(props) == [t |-> "object", props |-> props]
Func == [t |-> "function"]
Throw(name) == [t |-> "throw", error |-> name]

IsInt(v) == v.t = "number" /\ "n" \in DOMAIN v

\* typeof value
typeof(v) ==
  CASE v.t \in {"null", "array", "object", "binary"} -> "object"
    [] v.t = "undefined" -> "undefined"
    [] OTHER -> v.t

\* a === b, except that NaN equals itself (SameValueZero): 0 and -0 are equal
SameValueZero(a, b) ==
  LET norm(v) == IF v = NegZero THEN Num(0) ELSE v
  IN norm(a) = norm(b)

(***************************************************************************)
(* Sequence helpers.                                                       *)
(***************************************************************************)
Range(s) == {s[i] : i \in 1..Len(s)}
Last(s) == s[Len(s)]
LastN(s, n) == IF Len(s) <= n THEN s ELSE SubSeq(s, Len(s) - n + 1, Len(s))
SeqsUpTo(S, n) == UNION {[1..k -> S] : k \in 0..n}

\* the byte sequence made of the runs <<value, length>>
RECURSIVE Expand(_)
Expand(runs) ==
  IF runs = <<>> THEN <<>>
  ELSE [k \in 1..Head(runs)[2] |-> Head(runs)[1]] \o Expand(Tail(runs))

\* the lengths of the short runs the byte sequences are made of
ShortLens == {1, 2, 4}

\* an ordered list of [k, v] with v put under k: in place, or at the end
MapSetSeq(m, k, v) ==
  IF \E i \in 1..Len(m) : m[i].k = k
    THEN [i \in 1..Len(m) |-> IF m[i].k = k THEN [k |-> k, v |-> v] ELSE m[i]]
    ELSE Append(m, [k |-> k, v |-> v])

(***************************************************************************)
(* String(number), Number(string) and String(boolean).                     *)
(***************************************************************************)
Digits == <<"0", "1", "2", "3", "4", "5", "6", "7", "8", "9">>
IsDigit(ch) == \E i \in 1..10 : Digits[i] = ch
DigitVal(ch) == (CHOOSE i \in 1..10 : Digits[i] = ch) - 1

RECURSIVE NatToChars(_)
NatToChars(n) ==
  IF n < 10 THEN <<Digits[n + 1]>>
  ELSE NatToChars(n \div 10) \o <<Digits[(n % 10) + 1]>>

RECURSIVE CharsToNat(_)
CharsToNat(chars) ==
  IF chars = <<>> THEN 0
  ELSE 10 * CharsToNat(SubSeq(chars, 1, Len(chars) - 1)) + DigitVal(Last(chars))

AllDigits(chars) == chars # <<>> /\ \A i \in 1..Len(chars) : IsDigit(chars[i])

\* String(v) for a number or a boolean
StringOf(v) ==
  CASE v = NaN -> <<"N", "a", "N">>
    [] v = PosInf -> <<"I", "n", "f", "i", "n", "i", "t", "y">>
    [] v = NegInf -> <<"-", "I", "n", "f", "i", "n", "i", "t", "y">>
    [] v = NegZero -> <<"0">>
    [] v.t = "boolean" -> IF v.b THEN <<"t", "r", "u", "e">>
                                 ELSE <<"f", "a", "l", "s", "e">>
    [] OTHER -> IF v.n < 0 THEN <<"-">> \o NatToChars(-v.n) ELSE NatToChars(v.n)

\* Number(chars) for a string without white space, fraction or exponent
NumberOf(chars) ==
  CASE chars = <<>> -> Num(0)
    [] chars = <<"I", "n", "f", "i", "n", "i", "t", "y">> -> PosInf
    [] chars = <<"+", "I", "n", "f", "i", "n", "i", "t", "y">> -> PosInf
    [] chars = <<"-", "I", "n", "f", "i", "n", "i", "t", "y">> -> NegInf
    [] AllDigits(chars) -> Num(CharsToNat(chars))
    [] Len(chars) > 1 /\ chars[1] = "+" /\ AllDigits(Tail(chars)) ->
         Num(CharsToNat(Tail(chars)))
    [] Len(chars) > 1 /\ chars[1] = "-" /\ AllDigits(Tail(chars)) ->
         IF CharsToNat(Tail(chars)) = 0 THEN NegZero
         ELSE Num(-CharsToNat(Tail(chars)))
    [] OTHER -> NaN

(***************************************************************************)
(* Binary values.  Bin(kind, buffer, byteOffset, byteLength) is an         *)
(* ArrayBuffer (kind "ArrayBuffer", the whole buffer) or a typed array of  *)
(* the given kind viewing byteLength bytes of buffer from byteOffset on.   *)
(***************************************************************************)
Bin(kind, buffer, byteOffset, byteLength) ==
  [t |-> "binary", kind |-> kind, buffer |-> buffer,
   byteOffset |-> byteOffset, byteLength |-> byteLength]

BinaryKinds ==
  {"ArrayBuffer", "Uint8Array", "Uint16Array", "Uint32Array", "Int8Array",
   "Int16Array", "Int32Array", "Float32Array", "Float64Array"}

\* BYTES_PER_ELEMENT
ElementWidth(kind) ==
  CASE kind \in {"ArrayBuffer", "Uint8Array", "Int8Array"} -> 1
    [] kind \in {"Uint16Array", "Int16Array"} -> 2
    [] kind \in {"Uint32Array", "Int32Array", "Float32Array"} -> 4
    [] kind = "Float64Array" -> 8

\* the bytes the value views, in order
ViewBytes(b) == SubSeq(b.buffer, b.byteOffset + 1, b.byteOffset + b.byteLength)

\* new Uint8Array(n) / the fresh buffer of n zero-initialised or given bytes
WholeBuffer(kind, bytes) == Bin(kind, bytes, 0, Len(bytes))

\* new K(arrayBuffer) for a typed array constructor K: the whole buffer, or
\* a RangeError when its length is not a multiple of the element width
NewTypedArray(kind, bytes) ==
  IF Len(bytes) % ElementWidth(kind) = 0
    THEN WholeBuffer(kind, bytes) ELSE Throw("RangeError")

\* the elements of an 8-bit or 16-bit integer typed array (little-endian),
\* as numbers
RECURSIVE LittleEndian(_)
LittleEndian(bytes) ==
  IF bytes = <<>> THEN 0 ELSE Head(bytes) + 256 * LittleEndian(Tail(bytes))

Pow256(w) == IF w = 1 THEN 256 ELSE 65536

Elements(b) ==
  LET w == ElementWidth(b.kind)
      bytes == ViewBytes(b)
      signed == b.kind \in {"Int8Array", "Int16Array", "Int32Array"}
      elem(i) == LET u == LittleEndian(SubSeq(bytes, (i - 1) * w + 1, i * w))
                 IN IF signed /\ u >= Pow256(w) \div 2 THEN u - Pow256(w) ELSE u
  IN [i \in 1..(Len(bytes) \div w) |-> Num(elem(i))]

\* the enumerable own properties of a typed array: "0", "1", ... ; an
\* ArrayBuffer has none
IndexProps(b) ==
  IF b.kind = "ArrayBuffer" THEN <<>>
  ELSE LET e == Elements(b)
       IN [i \in 1..Len(e) |-> [k |-> NatToChars(i - 1), v |-> e[i]]]

(***************************************************************************)
(* JSON.stringify and JSON.parse over the values above.  JSON text is a    *)
(* sequence of characters without white space.                             *)
(***************************************************************************)
\* a string literal: quotes, with " and \ escaped
JsonQuote(chars) ==
  LET RECURSIVE esc(_)
      esc(cs) == IF cs = <<>> THEN <<>>
                 ELSE (IF Head(cs) \in {"\"", "\\"} THEN <<"\\", Head(cs)>>
                       ELSE <<Head(cs)>>) \o esc(Tail(cs))
  IN <<"\"">> \o esc(chars) \o <<"\"">>

RECURSIVE JsonText(_)
\* the text of a value; <<>> stands for undefined (no text)
JsonText(v) ==
  CASE v.t = "null" -> <<"n", "u", "l", "l">>
    [] v.t = "boolean" -> StringOf(v)
    [] v.t = "number" ->
         IF v \in {NaN, PosInf, NegInf} THEN <<"n", "u", "l", "l">> ELSE StringOf(v)
    [] v.t = "string" -> JsonQuote(v.s)
    [] v.t = "array" ->
         LET RECURSIVE items(_)
             items(i) ==
               IF i > Len(v.items) THEN <<>>
               ELSE (IF i > 1 THEN <<",">> ELSE <<>>)
                    \o (IF JsonText(v.items[i]) = <<>> THEN <<"n", "u", "l", "l">>
                        ELSE JsonText(v.items[i]))
                    \o items(i + 1)
         IN <<"[">> \o items(1) \o <<"]">>
    [] v.t = "object" ->
         LET has(p) == JsonText(p.v) # <<>>
             kept == SelectSeq(v.props, has)
             RECURSIVE props(_)
             props(i) ==
               IF i > Len(kept) THEN <<>>
               ELSE (IF i > 1 THEN <<",">> ELSE <<>>)
                    \o JsonQuote(kept[i].k) \o <<":">> \o JsonText(kept[i].v)
                    \o props(i + 1)
         IN <<"{">> \o props(1) \o <<"}">>
    [] v.t = "binary" -> JsonText(Obj(IndexProps(v)))
    [] OTHER -> <<>>       \* undefined and functions have no JSON text

\* an object that refers to itself
Cyclic == [t |-> "object", cyclic |-> TRUE]

\* JSON.stringify(value) for a value whose typeof is 'object': the text as a
\* string, or Throw("TypeError") for a cyclic structure
JSON_stringify(v) ==
  IF v = Cyclic THEN Throw("TypeError") ELSE Str(JsonText(v))

\* The parser: each Parse operator takes the text and a position and yields
\* [ok, v, pos] with pos the position after the value.
Fail == [ok |-> FALSE, v |-> Null, pos |-> 0]
Ok(v, pos) == [ok |-> TRUE, v |-> v, pos |-> pos]
At(text, pos) == IF pos <= Len(text) THEN text[pos] ELSE ""
Lit(text, pos, word) ==
  pos + Len(word) - 1 <= Len(text) /\ SubSeq(text, pos, pos + Len(word) - 1) = word

RECURSIVE ParseStringBody(_, _, _)
\* pos is after the opening quote; acc the characters read so far
ParseStringBody(text, pos, acc) ==
  IF pos > Len(text) THEN Fail
  ELSE IF text[pos] = "\"" THEN Ok(Str(acc), pos + 1)
  ELSE IF text[pos] = "\\"
    THEN IF pos + 1 <= Len(text) /\ text[pos + 1] \in {"\"", "\\"}
           THEN ParseStringBody(text, pos + 2, Append(acc, text[pos + 1]))
           ELSE Fail
  ELSE ParseStringBody(text, pos + 1, Append(acc, text[pos]))

RECURSIVE DigitsEnd(_, _)
\* the position after the run of digits that starts at pos
DigitsEnd(text, pos) ==
  IF pos <= Len(text) /\ IsDigit(text[pos]) THEN DigitsEnd(text, pos + 1) ELSE pos

ParseNumber(text, pos) ==
  LET start == IF At(text, pos) = "-" THEN pos + 1 ELSE pos
      end == DigitsEnd(text, start)
      digits == SubSeq(text, start, end - 1)
  IN IF end = start \/ (Len(digits) > 1 /\ digits[1] = "0") THEN Fail
     ELSE IF start > pos
       THEN Ok(IF CharsToNat(digits) = 0 THEN NegZero ELSE Num(-CharsToNat(digits)), end)
       ELSE Ok(Num(CharsToNat(digits)), end)

RECURSIVE ParseValue(_, _)
RECURSIVE ParseItems(_, _, _)
RECURSIVE ParseProps(_, _, _)

\* pos is where the next item starts; acc the items read so far
ParseItems(text, pos, acc) ==
  LET r == ParseValue(text, pos)
  IN IF ~r.ok THEN Fail
     ELSE IF At(text, r.pos) = "," THEN ParseItems(text, r.pos + 1, Append(acc, r.v))
     ELSE IF At(text, r.pos) = "]" THEN Ok(Arr(Append(acc, r.v)), r.pos + 1)
     ELSE Fail

\* pos is where the next property name starts; acc the properties so far.
\* A repeated name keeps its first position and takes the last value.
ParseProps(text, pos, acc) ==
  IF At(text, pos) # "\"" THEN Fail
  ELSE LET key == ParseStringBody(text, pos + 1, <<>>)
       IN IF ~key.ok \/ At(text, key.pos) # ":" THEN Fail
          ELSE LET r == ParseValue(text, key.pos + 1)
                   acc2 == MapSetSeq(acc, key.v.s, r.v)
               IN IF ~r.ok THEN Fail
                  ELSE IF At(text, r.pos) = "," THEN ParseProps(text, r.pos + 1, acc2)
                  ELSE IF At(text, r.pos) = "}" THEN Ok(Obj(acc2), r.pos + 1)
                  ELSE Fail

ParseValue(text, pos) ==
  CASE Lit(text, pos, <<"n", "u", "l", "l">>) -> Ok(Null, pos + 4)
    [] Lit(text, pos, <<"t", "r", "u", "e">>) -> Ok(Bool(TRUE), pos + 4)
    [] Lit(text, pos, <<"f", "a", "l", "s", "e">>) -> Ok(Bool(FALSE), pos + 5)
    [] At(text, pos) = "\"" -> ParseStringBody(text, pos + 1, <<>>)
    [] At(text, pos) = "[" ->
         IF At(text, pos + 1) = "]" THEN Ok(Arr(<<>>), pos + 2)
         ELSE ParseItems(text, pos + 1, <<>>)
    [] At(text, pos) = "{" ->
         IF At(text, pos + 1) = "}" THEN Ok(Obj(<<>>), pos + 2)
         ELSE ParseProps(text, pos + 1, <<>>)
    [] OTHER -> ParseNumber(text, pos)

\* JSON.parse(text): the value, or Throw("SyntaxError")
JSON_parse(text) ==
  LET r == ParseValue(text, 1)
  IN IF r.ok /\ r.pos = Len(text) + 1 THEN r.v ELSE Throw("SyntaxError")

(***************************************************************************)
(* A JavaScript Map: a sequence of [k, v] entries in insertion order.      *)
(* Map.set on a present key replaces the value in place; on an absent key  *)
(* it appends.  Map.keys().next().value is the key of the first entry.     *)
(***************************************************************************)
MapHas(m, k) == \E i \in 1..Len(m) : m[i].k = k
MapGet(m, k) ==
  IF MapHas(m, k) THEN m[CHOOSE i \in 1..Len(m) : m[i].k = k].v ELSE Undefined
MapSet(m, k, v) == MapSetSeq(m, k, v)
MapDelete(m, k) ==
  LET keep(e) == e.k # k IN SelectSeq(m, keep)
MapKeySet(m) == {m[i].k : i \in 1..Len(m)}

(***************************************************************************)
(* The cache engine, createCache (cache.js).  A cache is the record        *)
(*   [maxSize, ttl, cache, expiry, stats]                                  *)
(* of the closure's constants and Maps.                                    *)
(***************************************************************************)
createCache(maxSize, ttl) ==
  [maxSize |-> maxSize, ttl |-> ttl, cache |-> <<>>, expiry |-> <<>>,
   stats |-> [hits |-> 0, misses |-> 0, sets |-> 0, evictions |-> 0]]

\* expiry.get(key) is truthy
HasExpiry(c, key) == MapHas(c.expiry, key) /\ MapGet(c.expiry, key) # 0

\* the branch of get that finds the entry expired
cache_isExpired(c, key, t) ==
  /\ c.ttl > 0
  /\ HasExpiry(c, key)
  /\ t > MapGet(c.expiry, key)

\* a get that moves the entry it hits to the end of the Map (an LRU lookup)
cache_get_lru(c, key, t) ==
  IF ~MapHas(c.cache, key)
    THEN [c |-> [c EXCEPT !.stats.misses = @ + 1], value |-> Undefined]
    ELSE IF cache_isExpired(c, key, t)
      THEN [c |-> [c EXCEPT !.cache = MapDelete(@, key),
                            !.expiry = MapDelete(@, key),
                            !.stats.evictions = @ + 1,
                            !.stats.misses = @ + 1],
            value |-> Undefined]
      ELSE [c |-> [c EXCEPT !.stats.hits = @ + 1,
                            !.cache = MapSet(MapDelete(@, key), key, MapGet(c.cache, key))],
            value |-> MapGet(c.cache, key)]

\* get(key) at time t: the cache afterwards and the value returned
cache_get(c, key, t) ==
  IF ~MapHas(c.cache, key)
    THEN [c |-> [c EXCEPT !.stats.misses = @ + 1], value |-> Undefined]
    ELSE IF cache_isExpired(c, key, t)
      THEN [c |-> [c EXCEPT !.cache = MapDelete(@, key),
                            !.expiry = MapDelete(@, key),
                            !.stats.evictions = @ + 1,
                            !.stats.misses = @ + 1],
            value |-> Undefined]
      ELSE [c |-> [c EXCEPT !.stats.hits = @ + 1], value |-> MapGet(c.cache, key)]

\* a capacity test that is off by one
cache_atCapacity_gt(c, key) ==
  c.maxSize > 0 /\ Len(c.cache) > c.maxSize /\ ~MapHas(c.cache, key)

\* a capacity test that takes the set of a present key for an insertion
cache_atCapacity_anyKey(c, key) ==
  c.maxSize > 0 /\ Len(c.cache) >= c.maxSize

\* the capacity test of set
cache_atCapacity(c, key) ==
  c.maxSize > 0 /\ Len(c.cache) >= c.maxSize /\ ~MapHas(c.cache, key)

\* a set that evicts the newest entry instead of the oldest
cache_set_newest(c, key, value, customTtl, t) ==
  LET c1 == [c EXCEPT !.stats.sets = @ + 1]
      c2 == IF cache_atCapacity(c1, key)
              THEN [c1 EXCEPT !.cache = MapDelete(@, Last(c1.cache).k),
                              !.expiry = MapDelete(@, Last(c1.cache).k),
                              !.stats.evictions = @ + 1]
              ELSE c1
      c3 == [c2 EXCEPT !.cache = MapSet(@, key, value)]
  IN IF customTtl > 0 \/ c.ttl > 0
       THEN [c3 EXCEPT !.expiry =
               MapSet(@, key, t + (IF customTtl > 0 THEN customTtl ELSE c.ttl))]
       ELSE c3

\* set(key, value, customTtl) at time t; customTtl = 0 stands for undefined
cache_set(c, key, value, customTtl, t) ==
  LET c1 == [c EXCEPT !.stats.sets = @ + 1]
      c2 == IF cache_atCapacity(c1, key)
              THEN [c1 EXCEPT !.cache = MapDelete(@, c1.cache[1].k),
                              !.expiry = MapDelete(@, c1.cache[1].k),
                              !.stats.evictions = @ + 1]
              ELSE c1
      c3 == [c2 EXCEPT !.cache = MapSet(@, key, value)]
  IN IF customTtl > 0 \/ c.ttl > 0
       THEN [c3 EXCEPT !.expiry =
               MapSet(@, key, t + (IF customTtl > 0 THEN customTtl ELSE c.ttl))]
       ELSE c3

cache_remove(c, key) ==
  [c EXCEPT !.cache = MapDelete(@, key), !.expiry = MapDelete(@, key)]

cache_clear(c) == [c EXCEPT !.cache = <<>>, !.expiry = <<>>]

cache_size(c) == Len(c.cache)

cache_resetStats(c) ==
  [c EXCEPT !.stats = [hits |-> 0, misses |-> 0, sets |-> 0, evictions |-> 0]]

(***************************************************************************)
(* SpecCache: one cache engine without expiry (ttl = 0, no customTtl),     *)
(* driven by arbitrary get/set/remove/clear calls.                         *)
(* SpecCacheTtl: a smaller cache engine with expiry and a clock.           *)
(***************************************************************************)
CacheKeys == {"a", "b", "c", "d"}
CacheValues == {Num(1), Num(2)}
TtlKeys == {"a", "b"}
TtlCaps == {0, 1}
CacheTtls == {0, 1}          \* the ttl option, and the customTtl argument

PresentKeys(c) == MapKeySet(c.cache)

\* history: the present keys in the order in which they became present
TrackOrder(order, c2, key) ==
  LET still(k) == k \in PresentKeys(c2)
      kept == SelectSeq(order, still)
  IN IF key \in PresentKeys(c2) /\ key \notin Range(kept)
       THEN Append(kept, key) ELSE kept

\* history: what a call did, from the caches before and after it
CallRecord(op, key, value, c1, c2, order, hits) ==
  [op |-> op, key |-> key, value |-> value,
   gone |-> PresentKeys(c1) \ PresentKeys(c2),
   hit |-> hits,
   oldest |-> IF order = <<>> THEN {} ELSE {Head(order)}]

NoRun == [ok |-> FALSE, sets |-> <<>>]

CacheInitWith(maxSizes, ttls) ==
  /\ now = 0
  /\ \E m \in maxSizes, l \in ttls : engine = createCache(m, l)
  /\ cacheLast = [op |-> "new", key |-> "", value |-> Undefined,
                  gone |-> {}, hit |-> {}, oldest |-> {}]
  /\ insOrder = <<>>
  /\ hitKeys = {}
  /\ freshRun = [ok |-> TRUE, sets |-> <<>>]

CacheGetStep(key) ==
  /\ engine.stats.hits + engine.stats.misses < MaxGets
  /\ LET r == cache_get(engine, key, now)
     IN /\ engine' = r.c
        /\ cacheLast' = CallRecord("get", key, r.value, engine, r.c, insOrder, hitKeys)
        /\ insOrder' = TrackOrder(insOrder, r.c, key)
        /\ hitKeys' = (hitKeys \cup (IF r.c.stats.hits > engine.stats.hits
                                       THEN {key} ELSE {}))
                        \cap PresentKeys(r.c)
  /\ freshRun' = NoRun
  /\ UNCHANGED now

CacheSetStep(key, value, customTtl) ==
  /\ engine.stats.sets < MaxSets
  /\ LET c2 == cache_set(engine, key, value, customTtl, now)
     IN /\ engine' = c2
        /\ cacheLast' = CallRecord("set", key, value, engine, c2, insOrder, hitKeys)
        /\ insOrder' = TrackOrder(insOrder, c2, key)
        /\ hitKeys' = hitKeys \cap PresentKeys(c2)
  /\ freshRun' =
       IF freshRun.ok /\ (\A i \in 1..Len(freshRun.sets) : freshRun.sets[i].k # key)
         THEN [freshRun EXCEPT !.sets = Append(@, [k |-> key, v |-> value])]
         ELSE NoRun
  /\ UNCHANGED now

CacheRemoveStep(key) ==
  /\ LET c2 == cache_remove(engine, key)
     IN /\ engine' = c2
        /\ cacheLast' = CallRecord("remove", key, Undefined, engine, c2, insOrder, hitKeys)
        /\ insOrder' = TrackOrder(insOrder, c2, key)
        /\ hitKeys' = hitKeys \cap PresentKeys(c2)
  /\ freshRun' = NoRun
  /\ UNCHANGED now

CacheClearStep ==
  /\ LET c2 == cache_clear(engine)
     IN /\ engine' = c2
        /\ cacheLast' = CallRecord("clear", "", Undefined, engine, c2, insOrder, hitKeys)
        /\ insOrder' = TrackOrder(insOrder, c2, "")
        /\ hitKeys' = hitKeys \cap PresentKeys(c2)
  /\ freshRun' = NoRun
  /\ UNCHANGED now

CacheResetStatsStep ==
  /\ engine.stats # cache_resetStats(engine).stats
  /\ engine' = cache_resetStats(engine)
  /\ UNCHANGED <<now, cacheLast, insOrder, hitKeys, freshRun>>

CacheTickStep ==
  /\ now < MaxTime
  /\ now' = now + 1
  /\ UNCHANGED <<engine, cacheLast, insOrder, hitKeys, freshRun>>

\* the calls as the actions of SpecCache
CacheGet(key) == CacheGetStep(key) /\ OtherUnchanged("cache")
CacheSet(key, value, customTtl) ==
  CacheSetStep(key, value, customTtl) /\ OtherUnchanged("cache")
CacheRemove(key) == CacheRemoveStep(key) /\ OtherUnchanged("cache")
CacheClear == CacheClearStep /\ OtherUnchanged("cache")

CacheInit == CacheInitWith(0..MaxCap, {0}) /\ OtherInit("cache")

CacheNext ==
  \/ \E key \in CacheKeys : CacheGet(key)
  \/ \E key \in CacheKeys, value \in CacheValues : CacheSet(key, value, 0)
  \/ \E key \in CacheKeys : CacheRemove(key)
  \/ CacheClear

SpecCache == CacheInit /\ [][CacheNext]_vars

\* history of the TTL specification.  ttlLog[k] describes the last set of k
\* while nothing but time and gets of k has touched the entry since: the time
\* at of the set, its value, its customTtl, the gets of k since then (time,
\* value returned, whether the entry is present afterwards) and evicts, the
\* increments of stats.evictions that those gets made.
NoSet == [isSet |-> FALSE, at |-> 0, value |-> Undefined, customTtl |-> 0,
          gets |-> <<>>, evicts |-> 0]

CacheTtlInit == CacheInitWith(TtlCaps, CacheTtls) /\ ttlLog = [k \in TtlKeys |-> NoSet]
                /\ OtherInit("ttl")

\* the entries another call has removed or replaced are no longer followed
Followed(log, c1, c2, touched) ==
  [k \in TtlKeys |->
     IF k \in touched \/ (k \in PresentKeys(c1) /\ k \notin PresentKeys(c2))
       THEN NoSet ELSE log[k]]

TtlGet(key) ==
  /\ CacheGetStep(key)
  /\ ttlLog' =
       [ttlLog EXCEPT ![key] =
          IF @.isSet
            THEN [@ EXCEPT !.gets = Append(@, [t |-> now, value |-> cacheLast'.value,
                                               present |-> key \in PresentKeys(engine')]),
                           !.evicts = @ + engine'.stats.evictions - engine.stats.evictions]
            ELSE @]
  /\ OtherUnchanged("ttl")

TtlSet(key, value, customTtl) ==
  /\ engine.stats.sets < MaxTtlSets
  /\ CacheSetStep(key, value, customTtl)
  /\ ttlLog' = [Followed(ttlLog, engine, engine', {}) EXCEPT ![key] =
                  [isSet |-> TRUE, at |-> now, value |-> value,
                   customTtl |-> customTtl, gets |-> <<>>, evicts |-> 0]]
  /\ OtherUnchanged("ttl")

TtlRemove(key) ==
  /\ CacheRemoveStep(key)
  /\ ttlLog' = Followed(ttlLog, engine, engine', {key})
  /\ OtherUnchanged("ttl")

TtlClear ==
  /\ CacheClearStep
  /\ ttlLog' = Followed(ttlLog, engine, engine', TtlKeys)
  /\ OtherUnchanged("ttl")

CacheTick == CacheTickStep /\ UNCHANGED ttlLog /\ OtherUnchanged("ttl")

CacheTtlNext ==
  \/ \E key \in TtlKeys : TtlGet(key)
  \/ \E key \in TtlKeys, value \in CacheValues, customTtl \in CacheTtls :
       TtlSet(key, value, customTtl)
  \/ \E key \in TtlKeys : TtlRemove(key)
  \/ TtlClear
  \/ CacheTick

SpecCacheTtl == CacheTtlInit /\ [][CacheTtlNext]_vars

(***************************************************************************)
(* Run-length compression (index.js).  A Uint8Array is a sequence of       *)
(* numbers in 0..255; data[i] of the code is data[i+1] here.               *)
(***************************************************************************)
MaxCount == 255    \* the largest run length one (value, count) pair carries

\* new Uint8Array(list): every element is stored modulo 256
ToUint8(list) == [i \in 1..Len(list) |-> list[i] % 256]

\* one iteration of the for loop of compressBinary, reading the byte d
\* a loop body that lets a run grow beyond 255
rleStep_uncapped(st, d) ==
  IF d = st.currentValue
    THEN [st EXCEPT !.count = @ + 1]
    ELSE [compressed |-> st.compressed \o <<st.currentValue, st.count>>,
          currentValue |-> d, count |-> 1]

rleStep(st, d) ==
  IF d = st.currentValue /\ st.count < MaxCount
    THEN [st EXCEPT !.count = @ + 1]
    ELSE [compressed |-> st.compressed \o <<st.currentValue, st.count>>,
          currentValue |-> d, count |-> 1]

\* the iterations of the loop for data[lo..hi] in order, started in state st
\* (the range is split in halves, and st.count, which is never below 1, is
\* read first, only to keep the evaluation shallow)
RECURSIVE rleLoop(_, _, _, _)
rleLoop(data, lo, hi, st) ==
  IF lo > hi \/ st.count < 1 THEN st
  ELSE IF lo = hi THEN rleStep(st, data[lo])
  ELSE LET mid == (lo + hi) \div 2
           left == rleLoop(data, lo, mid, st)
       IN rleLoop(data, mid + 1, hi, left)

\* the (value, count) list compressBinary builds before it compares lengths
rlePairs(data) ==
  IF Len(data) = 0
    THEN <<>>
    ELSE LET l == rleLoop(data, 2, Len(data),
                          [compressed |-> <<>>, currentValue |-> data[1], count |-> 1])
         IN l.compressed \o <<l.currentValue, l.count>>

\* a compressBinary that keeps the run-length output whenever it is not longer
compressBinary_le(data) ==
  LET compressedData == ToUint8(rlePairs(data))
  IN IF Len(compressedData) <= Len(data)
       THEN [compressed |-> compressedData, originalSize |-> Len(data),
             isCompressed |-> TRUE]
       ELSE [compressed |-> data, originalSize |-> Len(data), isCompressed |-> FALSE]

compressBinary(data) ==
  LET compressedData == ToUint8(rlePairs(data))
  IN IF Len(compressedData) < Len(data)
       THEN [compressed |-> compressedData, originalSize |-> Len(data),
             isCompressed |-> TRUE]
       ELSE [compressed |-> data, originalSize |-> Len(data), isCompressed |-> FALSE]

\* decompressed[writeIndex++] = value, count times; a write past the end of
\* a typed array is dropped
WriteRun(decompressed, writeIndex, value, count) ==
  [k \in 1..Len(decompressed) |->
     IF writeIndex < k /\ k <= writeIndex + count THEN value ELSE decompressed[k]]

\* the for loop of decompressBinary from pair index i (1-based) on
RECURSIVE unrleLoop(_, _, _, _)
unrleLoop(compressedData, i, writeIndex, decompressed) ==
  IF i > Len(compressedData)
    THEN decompressed
    ELSE LET value == compressedData[i]
             \* compressedData[i+1] is undefined past the end: no write
             count == IF i + 1 > Len(compressedData) THEN -1 ELSE compressedData[i + 1]
             n == IF count = 0 THEN 1 ELSE IF count < 0 THEN 0 ELSE count
         IN unrleLoop(compressedData, i + 2, writeIndex + n,
                      WriteRun(decompressed, writeIndex, value, n))

\* a decompressBinary that takes a count of c for c+1 copies
decompressBinary_plus(compressedData, originalSize, isCompressed) ==
  IF ~isCompressed
    THEN compressedData
    ELSE unrleLoop([i \in 1..Len(compressedData) |->
                      IF i % 2 = 0 THEN compressedData[i] + 1 ELSE compressedData[i]],
                   1, 0, [k \in 1..originalSize |-> 0])

decompressBinary(compressedData, originalSize, isCompressed) ==
  IF ~isCompressed
    THEN compressedData
    ELSE unrleLoop(compressedData, 1, 0, [k \in 1..originalSize |-> 0])

(***************************************************************************)
(* btoa and atob.  A binary string is the sequence of its character codes. *)
(***************************************************************************)
B64 ==
  <<"A", "B", "C", "D", "E", "F", "G", "H", "I", "J", "K", "L", "M", "N", "O", "P",
    "Q", "R", "S", "T", "U", "V", "W", "X", "Y", "Z", "a", "b", "c", "d", "e", "f",
    "g", "h", "i", "j", "k", "l", "m", "n", "o", "p", "q", "r", "s", "t", "u", "v",
    "w", "x", "y", "z", "0", "1", "2", "3", "4", "5", "6", "7", "8", "9", "+", "/">>
IsB64(ch) == \E i \in 1..64 : B64[i] = ch
B64Val(ch) == (CHOOSE i \in 1..64 : B64[i] = ch) - 1

RECURSIVE btoa(_)
btoa(codes) ==
  IF codes = <<>> THEN <<>>
  ELSE IF Len(codes) = 1
    THEN <<B64[(codes[1] \div 4) + 1], B64[((codes[1] % 4) * 16) + 1], "=", "=">>
  ELSE IF Len(codes) = 2
    THEN <<B64[(codes[1] \div 4) + 1],
           B64[((codes[1] % 4) * 16 + codes[2] \div 16) + 1],
           B64[((codes[2] % 16) * 4) + 1], "=">>
  ELSE <<B64[(codes[1] \div 4) + 1],
         B64[((codes[1] % 4) * 16 + codes[2] \div 16) + 1],
         B64[((codes[2] % 16) * 4 + codes[3] \div 64) + 1],
         B64[(codes[3] % 64) + 1]>>
       \o btoa(SubSeq(codes, 4, Len(codes)))

RECURSIVE atobGroups(_)
\* the character codes of base64 characters without padding
atobGroups(chars) ==
  IF Len(chars) < 2 THEN <<>>
  ELSE LET v(i) == B64Val(chars[i])
       IN IF Len(chars) = 2 THEN <<v(1) * 4 + v(2) \div 16>>
          ELSE IF Len(chars) = 3
            THEN <<v(1) * 4 + v(2) \div 16, (v(2) % 16) * 16 + v(3) \div 4>>
          ELSE <<v(1) * 4 + v(2) \div 16, (v(2) % 16) * 16 + v(3) \div 4,
                 (v(3) % 4) * 64 + v(4)>>
               \o atobGroups(SubSeq(chars, 5, Len(chars)))

\* atob(chars): ok and the character codes, or not ok when atob throws an
\* InvalidCharacterError
atob(chars) ==
  LET n == Len(chars)
      pad == IF n % 4 = 0 /\ n > 0
               THEN (IF chars[n] = "=" THEN (IF chars[n - 1] = "=" THEN 2 ELSE 1) ELSE 0)
               ELSE 0
      body == SubSeq(chars, 1, n - pad)
  IN IF Len(body) % 4 = 1 \/ \E i \in 1..Len(body) : ~IsB64(body[i])
       THEN [ok |-> FALSE, codes |-> <<>>]
       ELSE [ok |-> TRUE, codes |-> atobGroups(body)]

(***************************************************************************)
(* The codec of index.js: serializeValue and deserializeValue.  An item is *)
(* a record [type, value] with, for type 'binary', binaryType,             *)
(* isCompressed and originalSize.                                          *)
(***************************************************************************)
\* the Uint8Array serializeValue makes of a binary value: the value itself
\* for a Uint8Array, otherwise a view of all of value.buffer
AsUint8Array(value) ==
  IF value.kind = "Uint8Array" THEN ViewBytes(value) ELSE value.buffer

\* the binary branch of serializeValue
serializeBinary(value, compression) ==
  LET uint8Array == AsUint8Array(value)
      compressResult == compressBinary(uint8Array)
      binaryData == IF compression THEN compressResult.compressed ELSE uint8Array
      isCompressed == compression /\ compressResult.isCompressed
  IN [type |-> "binary",
      value |-> Str(btoa(binaryData)),
      binaryType |-> value.kind,
      isCompressed |-> isCompressed,
      originalSize |-> IF isCompressed THEN Num(compressResult.originalSize)
                       ELSE Undefined]

\* serializeValue(value, {compression}): the item, or Throw("SerializationError")
serializeValue(value, compression) ==
  IF value.t \in {"null", "undefined"} THEN [type |-> "null", value |-> Null]
  ELSE IF value.t = "binary" THEN serializeBinary(value, compression)
  ELSE CASE typeof(value) = "string" -> [type |-> "string", value |-> value]
         [] typeof(value) \in {"number", "boolean"} ->
              [type |-> typeof(value), value |-> Str(StringOf(value))]
         [] typeof(value) = "object" ->
              IF JSON_stringify(value).t = "throw" THEN Throw("SerializationError")
              ELSE [type |-> "object", value |-> JSON_stringify(value)]
         [] OTHER -> Throw("SerializationError")

\* the binary branch of deserializeValue
deserializeBinary(item) ==
  LET binary == atob(item.value.s)
      bytes == binary.codes
      processedBytes ==
        IF item.isCompressed
          THEN decompressBinary(bytes,
                 IF IsInt(item.originalSize) THEN item.originalSize.n ELSE 0, TRUE)
          ELSE bytes
  IN IF ~binary.ok THEN Throw("InvalidCharacterError")
     ELSE CASE item.binaryType \in {"ArrayBuffer", "Uint8Array"} ->
                 WholeBuffer(item.binaryType, processedBytes)
            [] item.binaryType \in BinaryKinds \ {"ArrayBuffer", "Uint8Array"} ->
                 NewTypedArray(item.binaryType, processedBytes)
            [] OTHER -> WholeBuffer("Uint8Array", processedBytes)

\* a deserializeValue that returns the transported text of a number
deserializeValue_text(item) ==
  IF item = Null \/ "type" \notin DOMAIN item THEN Null
  ELSE CASE item.type = "null" -> Null
         [] item.type \in {"string", "number"} -> item.value
         [] item.type = "boolean" -> Bool(item.value = Str(<<"t", "r", "u", "e">>))
         [] item.type = "binary" -> deserializeBinary(item)
         [] item.type = "object" ->
              IF JSON_parse(item.value.s).t = "throw" THEN Null
              ELSE JSON_parse(item.value.s)
         [] OTHER -> item.value

\* deserializeValue(item)
deserializeValue(item) ==
  IF item = Null \/ "type" \notin DOMAIN item THEN Null
  ELSE CASE item.type = "null" -> Null
         [] item.type = "string" -> item.value
         [] item.type = "number" -> NumberOf(item.value.s)
         [] item.type = "boolean" -> Bool(item.value = Str(<<"t", "r", "u", "e">>))
         [] item.type = "binary" -> deserializeBinary(item)
         [] item.type = "object" ->
              IF JSON_parse(item.value.s).t = "throw" THEN Null
              ELSE JSON_parse(item.value.s)
         [] OTHER -> item.value

(***************************************************************************)
(* SpecCodec: serializeValue and then deserializeValue of index.js applied *)
(* to one value.                                                           *)
(***************************************************************************)
ScalarValues ==
  {Null, Undefined, Func, Cyclic,
   Str(<<>>), Str(<<"a">>), Str(<<"4", "2">>), Str(<<"t", "r", "u", "e">>),
   Str(<<"\"", "\\">>),
   Num(0), Num(42), Num(-7), Num(1000), NaN, PosInf, NegInf, NegZero,
   Bool(TRUE), Bool(FALSE)}

\* what JSON can represent at a leaf, and two leaves it cannot
JsonLeaves == {Null, Num(-7), Str(<<"a", "\"">>), Bool(TRUE)}
LossyLeaves == {Undefined, NaN}
InnerValues ==
  JsonLeaves \cup LossyLeaves
  \cup {Arr(<<>>), Arr(<<Num(0)>>), Obj(<<>>), Obj(<<[k |-> <<"a">>, v |-> Null]>>)}
PropKeys == {<<"a">>, <<"b", ":">>}

ArrayValues == {Arr(items) : items \in SeqsUpTo(InnerValues, MaxItems)}
ObjectValues ==
  {Obj(props) : props \in
     {ps \in SeqsUpTo([k : PropKeys, v : InnerValues], MaxItems) :
        \A i, j \in 1..Len(ps) : i # j => ps[i].k # ps[j].k}}

\* JSON can represent v: null, booleans, finite numbers but -0, strings, and
\* arrays and plain objects of such values
RECURSIVE JsonEncodable(_)
JsonEncodable(v) ==
  CASE v.t \in {"null", "boolean", "string"} -> TRUE
    [] v.t = "number" -> IsInt(v)
    [] v.t = "array" -> \A i \in 1..Len(v.items) : JsonEncodable(v.items[i])
    [] v.t = "object" ->
         /\ v # Cyclic
         /\ \A i \in 1..Len(v.props) : JsonEncodable(v.props[i].v)
    [] OTHER -> FALSE

BinBytes == {0, 65, 255}
BinBuffers ==
  {Expand(runs) : runs \in SeqsUpTo(BinBytes \X ShortLens, MaxBinRuns)}

\* the ArrayBuffers and typed arrays over the buffers: a typed array starts
\* at the first or second element and ends at the last or the one before
BinaryValues ==
  {WholeBuffer("ArrayBuffer", buf) : buf \in BinBuffers}
  \cup
  {Bin(kind, buf, off, len) :
     kind \in BinaryKinds \ {"ArrayBuffer"}, buf \in BinBuffers,
     off \in {0, 1, 2, 4, 8}, len \in 0..8}

IsTypedArray(b) ==
  /\ b.kind # "ArrayBuffer"
  /\ b.byteOffset % ElementWidth(b.kind) = 0
  /\ b.byteLength % ElementWidth(b.kind) = 0
  /\ b.byteOffset \in {0, ElementWidth(b.kind)}
  /\ b.byteOffset + b.byteLength <= Len(b.buffer)
  /\ Len(b.buffer) - (b.byteOffset + b.byteLength) < 2 * ElementWidth(b.kind)

CodecBinaries ==
  {b \in BinaryValues : b.kind = "ArrayBuffer" \/ IsTypedArray(b)}

CodecInit ==
  /\ \/ codecIn \in ScalarValues \cup ArrayValues \cup ObjectValues /\ codecComp = FALSE
     \/ codecIn \in CodecBinaries /\ codecComp \in BOOLEAN
  /\ codecItem = Null
  /\ codecOut = Undefined
  /\ codecPc = "input"
  /\ OtherInit("codec")

CodecSerialize ==
  /\ codecPc = "input"
  /\ codecItem' = serializeValue(codecIn, codecComp)
  /\ codecPc' = "serialized"
  /\ UNCHANGED <<codecIn, codecComp, codecOut>>
  /\ OtherUnchanged("codec")

CodecDeserialize ==
  /\ codecPc = "serialized"
  /\ "type" \in DOMAIN codecItem
  /\ codecOut' = deserializeValue(codecItem)
  /\ codecPc' = "deserialized"
  /\ UNCHANGED <<codecIn, codecComp, codecItem>>
  /\ OtherUnchanged("codec")

CodecNext == CodecSerialize \/ CodecDeserialize

SpecCodec == CodecInit /\ [][CodecNext]_vars

(***************************************************************************)
(* SpecRle: compressBinary and decompressBinary applied to byte sequences  *)
(* made of up to MaxRuns runs; the first run may be longer than 255.       *)
(***************************************************************************)
RleBytes == {0, 1, 255}

\* the input of the documented example: 1 1 1 1 2 2 3
ExampleInput == Expand(<<<<1, 4>>, <<2, 2>>, <<3, 1>>>>)

RleInputs ==
  {Expand(runs) : runs \in SeqsUpTo(RleBytes \X ShortLens, MaxRuns)}
  \cup {ExampleInput}
  \cup {Expand(<<<<v, LongRun>>>> \o runs) :
          v \in RleBytes, runs \in SeqsUpTo(RleBytes \X ShortLens, MaxRuns - 1)}

NoResult == [isCompressed |-> FALSE, originalSize |-> -1, compressed |-> <<>>]

RleInit ==
  /\ rleIn \in RleInputs
  /\ rleOut = NoResult
  /\ rleBack = <<>>
  /\ rlePc = "input"
  /\ OtherInit("rle")

RleCompress ==
  /\ rlePc = "input"
  /\ rleOut' = compressBinary(rleIn)
  /\ rlePc' = "compressed"
  /\ UNCHANGED <<rleIn, rleBack>>
  /\ OtherUnchanged("rle")

RleDecompress ==
  /\ rlePc = "compressed"
  /\ rleBack' = decompressBinary(rleOut.compressed, Len(rleIn), rleOut.isCompressed)
  /\ rlePc' = "decompressed"
  /\ UNCHANGED <<rleIn, rleOut>>
  /\ OtherUnchanged("rle")

RleNext == RleCompress \/ RleDecompress

SpecRle == RleInit /\ [][RleNext]_vars

(***************************************************************************)
(* The codec of storage-instance.js, which has no binary branch.           *)
(***************************************************************************)
\* serializeValue(value) of storage-instance.js: the item, or Throw("Error")
instance_serializeValue(value) ==
  IF value.t \in {"null", "undefined"} THEN [type |-> "null", value |-> Null]
  ELSE CASE typeof(value) = "string" -> [type |-> "string", value |-> value]
         [] typeof(value) \in {"number", "boolean"} ->
              [type |-> typeof(value), value |-> Str(StringOf(value))]
         [] typeof(value) = "object" ->
              IF JSON_stringify(value).t = "throw" THEN Throw("Error")
              ELSE [type |-> "object", value |-> JSON_stringify(value)]
         [] OTHER -> Throw("Error")

\* deserializeValue(item) of storage-instance.js
instance_deserializeValue(item) ==
  IF item = Null \/ "type" \notin DOMAIN item THEN Null
  ELSE CASE item.type = "null" -> Null
         [] item.type = "string" -> item.value
         [] item.type = "number" -> NumberOf(item.value.s)
         [] item.type = "boolean" -> Bool(item.value = Str(<<"t", "r", "u", "e">>))
         [] item.type = "object" ->
              IF JSON_parse(item.value.s).t = "throw" THEN Null
              ELSE JSON_parse(item.value.s)
         [] OTHER -> item.value

(***************************************************************************)
(* SpecDecode: deserializeValue of index.js and of storage-instance.js     *)
(* applied to one stored item, well formed or not.                         *)
(***************************************************************************)
ItemTypes == {"null", "string", "number", "boolean", "object", "date", ""}
ItemTexts ==
  {<<>>, <<"a">>, <<"4", "2">>, <<"t", "r", "u", "e">>, <<"n", "u", "l", "l">>,
   <<"{">>, <<"[", "1">>, <<"[", "1", "]">>}

\* base64 texts: of the bytes 65, of 65 65, of the run (65, 2), and two texts
\* atob rejects
ItemBase64 ==
  {btoa(<<65>>), btoa(<<65, 65>>), btoa(<<65, 2>>), <<"*">>, <<"Q">>}
ItemBinaryTypes == {"Uint8Array", "Uint16Array", "ArrayBuffer", "Blob"}

\* the items: [type, value] of every type and text, items without a type,
\* and binary items
DecodeItems ==
  {[type |-> type, value |-> Str(text)] : type \in ItemTypes, text \in ItemTexts}
  \cup {[value |-> Str(text)] : text \in ItemTexts}
  \cup {[type |-> "binary", value |-> Str(text), binaryType |-> binaryType,
          isCompressed |-> isCompressed, originalSize |-> originalSize] :
          text \in ItemBase64, binaryType \in ItemBinaryTypes,
          isCompressed \in BOOLEAN, originalSize \in {Undefined, Num(2)}}

DecodeInit ==
  /\ codecItem \in DecodeItems
  /\ codecIn = Undefined
  /\ codecComp = FALSE
  /\ codecOut = Undefined
  /\ codecPc = "serialized"
  /\ OtherInit("codec")

\* item.type is falsy
NoType(item) == "type" \notin DOMAIN item \/ item.type = ""

DecodeIndex ==
  /\ codecPc = "serialized"
  /\ codecOut' = IF NoType(codecItem) THEN Null ELSE deserializeValue(codecItem)
  /\ codecPc' = "deserialized"
  /\ UNCHANGED <<codecIn, codecComp, codecItem>>
  /\ OtherUnchanged("codec")

DecodeInstance ==
  /\ codecPc = "serialized"
  /\ codecOut' = IF NoType(codecItem) THEN Null
                 ELSE instance_deserializeValue(codecItem)
  /\ codecPc' = "instance"
  /\ UNCHANGED <<codecIn, codecComp, codecItem>>
  /\ OtherUnchanged("codec")

DecodeNext == DecodeIndex \/ DecodeInstance

SpecDecode == DecodeInit /\ [][DecodeNext]_vars

(***************************************************************************)
(* The native backend RNPureStorage: a function from the stored keys to    *)
(* the [type, value] items.  Values are stored unencrypted.                *)
(***************************************************************************)
native_setItem(b, key, item) ==
  [k \in DOMAIN b \cup {key} |-> IF k = key THEN item ELSE b[k]]
native_getItem(b, key) == IF key \in DOMAIN b THEN b[key] ELSE Null
native_removeKeys(b, keys) == [k \in DOMAIN b \ keys |-> b[k]]
native_getAllKeys(b) == DOMAIN b
native_hasKey(b, key) == key \in DOMAIN b

RECURSIVE native_multiSet(_, _)
\* entries is a sequence of [key, type, value]
native_multiSet(b, entries) ==
  IF entries = <<>> THEN b
  ELSE native_multiSet(
         native_setItem(b, Head(entries).key,
                        [type |-> Head(entries).type, value |-> Head(entries).value]),
         Tail(entries))

(***************************************************************************)
(* StorageInstance (storage-instance.js).  An instance is the record       *)
(* [namespace, cache].  Each method is given the instance, the backend and *)
(* the clock and yields [cache, backend, result, events]: the instance's   *)
(* cache and the backend afterwards, the value the call returns or the     *)
(* error it throws, and the events _emitChange delivered, in order.        *)
(***************************************************************************)
StorageError(code) == [t |-> "throw", error |-> "StorageError", code |-> code]
Event(type, key, value) == [type |-> type, key |-> key, value |-> value]

_getNamespacedKey(namespace, key) == namespace \o <<":">> \o key

startsWith(str, prefix) ==
  Len(str) >= Len(prefix) /\ SubSeq(str, 1, Len(prefix)) = prefix
substring(str, start) == SubSeq(str, start + 1, Len(str))

\* a call of a method of RNPureStorage with the namespaced keys it is given
NativeCall(method, keys) == [method |-> method, keys |-> keys]

\* what a native write does: resolves true, resolves false, or rejects
NativeOutcomes == {"true", "false", "reject"}

Outcome(c, b, result, events, calls) ==
  [cache |-> c, backend |-> b, result |-> result, events |-> events,
   calls |-> calls]

\* a setItem that drops the cache entry again when the native call fails
setItem_rollback(self, b, t, key, value, skipCache, native) ==
  LET namespacedKey == _getNamespacedKey(self.namespace, key)
      serialized == instance_serializeValue(value)
      cache1 == IF skipCache THEN self.cache ELSE cache_set(self.cache, key, value, 0, t)
      calls == <<NativeCall("setItem", <<namespacedKey>>)>>
  IN IF "type" \notin DOMAIN serialized
       THEN Outcome(self.cache, b, StorageError("SET_ERROR"), <<>>, <<>>)
     ELSE IF native = "reject"
       THEN Outcome(cache_remove(cache1, key), b, StorageError("SET_ERROR"), <<>>, calls)
     ELSE IF native = "false"
       THEN Outcome(cache1, b, Bool(FALSE), <<>>, calls)
     ELSE Outcome(cache1,
                  native_setItem(b, namespacedKey,
                                 [type |-> serialized.type, value |-> serialized.value]),
                  Bool(TRUE), <<Event("set", key, value)>>, calls)

\* a setItem that emits its event whatever the native call resolves to
setItem_emitAlways(self, b, t, key, value, skipCache, native) ==
  LET namespacedKey == _getNamespacedKey(self.namespace, key)
      serialized == instance_serializeValue(value)
      cache1 == IF skipCache THEN self.cache ELSE cache_set(self.cache, key, value, 0, t)
      calls == <<NativeCall("setItem", <<namespacedKey>>)>>
  IN IF "type" \notin DOMAIN serialized
       THEN Outcome(self.cache, b, StorageError("SET_ERROR"), <<>>, <<>>)
     ELSE IF native = "reject"
       THEN Outcome(cache1, b, StorageError("SET_ERROR"), <<>>, calls)
     ELSE IF native = "false"
       THEN Outcome(cache1, b, Bool(FALSE), <<Event("set", key, value)>>, calls)
     ELSE Outcome(cache1,
                  native_setItem(b, namespacedKey,
                                 [type |-> serialized.type, value |-> serialized.value]),
                  Bool(TRUE), <<Event("set", key, value)>>, calls)

\* setItem(key, value, {skipCache}); native is what RNPureStorage.setItem does
setItem(self, b, t, key, value, skipCache, native) ==
  LET namespacedKey == _getNamespacedKey(self.namespace, key)
      serialized == instance_serializeValue(value)
      cache1 == IF skipCache THEN self.cache ELSE cache_set(self.cache, key, value, 0, t)
      calls == <<NativeCall("setItem", <<namespacedKey>>)>>
  IN IF "type" \notin DOMAIN serialized
       THEN Outcome(self.cache, b, StorageError("SET_ERROR"), <<>>, <<>>)
     ELSE IF native = "reject"
       THEN Outcome(cache1, b, StorageError("SET_ERROR"), <<>>, calls)
     ELSE IF native = "false"
       THEN Outcome(cache1, b, Bool(FALSE), <<>>, calls)
     ELSE Outcome(cache1,
                  native_setItem(b, namespacedKey,
                                 [type |-> serialized.type, value |-> serialized.value]),
                  Bool(TRUE), <<Event("set", key, value)>>, calls)

SyncOperationError ==
  [t |-> "throw", error |-> "SyncOperationError", code |-> "SYNC_NOT_AVAILABLE"]

\* setItemSync(key, value, {skipCache}); sync: RNPureStorage.setItemSync is
\* defined; native is what it does (it returns true or false, or throws)
setItemSync(self, b, t, key, value, skipCache, sync, native) ==
  LET namespacedKey == _getNamespacedKey(self.namespace, key)
      serialized == instance_serializeValue(value)
      cache1 == IF skipCache THEN self.cache ELSE cache_set(self.cache, key, value, 0, t)
      calls == <<NativeCall("setItemSync", <<namespacedKey>>)>>
  IN IF ~sync
       THEN Outcome(self.cache, b, SyncOperationError, <<>>, <<>>)
     ELSE IF "type" \notin DOMAIN serialized
       THEN Outcome(self.cache, b, StorageError("SET_ERROR"), <<>>, <<>>)
     ELSE IF native = "reject"
       THEN Outcome(cache1, b, StorageError("SET_ERROR"), <<>>, calls)
     ELSE IF native = "false"
       THEN Outcome(cache1, b, Bool(FALSE), <<>>, calls)
     ELSE Outcome(cache1,
                  native_setItem(b, namespacedKey,
                                 [type |-> serialized.type, value |-> serialized.value]),
                  Bool(TRUE), <<Event("set", key, value)>>, calls)

\* getItemSync(key, {skipCache, default}); sync: RNPureStorage.getItemSync is
\* defined; nativeOk: it returns (it throws otherwise)
getItemSync(self, b, t, key, skipCache, default, sync, nativeOk) ==
  LET looked == cache_get(self.cache, key, t)
      cache1 == IF skipCache THEN self.cache ELSE looked.c
      namespacedKey == _getNamespacedKey(self.namespace, key)
      calls == <<NativeCall("getItemSync", <<namespacedKey>>)>>
      result == native_getItem(b, namespacedKey)
      value == IF result # Null THEN instance_deserializeValue(result) ELSE Null
  IN IF ~skipCache /\ looked.value # Undefined
       THEN Outcome(cache1, b, looked.value, <<>>, <<>>)
     ELSE IF ~sync
       THEN Outcome(cache1, b,
                    IF default # Undefined THEN default ELSE SyncOperationError,
                    <<>>, <<>>)
     ELSE IF ~nativeOk
       THEN Outcome(cache1, b,
                    IF default # Undefined THEN default ELSE StorageError("GET_ERROR"),
                    <<>>, calls)
     ELSE IF result = Null /\ default # Undefined
       THEN Outcome(cache1, b, default, <<>>, calls)
     ELSE Outcome(IF value # Null /\ ~skipCache
                    THEN cache_set(cache1, key, value, 0, t) ELSE cache1,
                  b, value, <<>>, calls)

\* a call of a method the StorageInstance class does not define
\* (removeItemSync, multiSetSync, multiGetSync, multiRemoveSync, clearSync,
\* getAllKeysSync, hasKeySync): instance[method] is undefined
undefinedMethod(self, b) ==
  Outcome(self.cache, b, Throw("TypeError"), <<>>, <<>>)

\* getItem(key, {skipCache, default}); default is Undefined when not given;
\* nativeOk: RNPureStorage.getItem resolves (it rejects otherwise)
getItem(self, b, t, key, skipCache, default, nativeOk) ==
  LET looked == cache_get(self.cache, key, t)
      cache1 == IF skipCache THEN self.cache ELSE looked.c
      namespacedKey == _getNamespacedKey(self.namespace, key)
      calls == <<NativeCall("getItem", <<namespacedKey>>)>>
      result == native_getItem(b, namespacedKey)
      value == IF result # Null THEN instance_deserializeValue(result) ELSE Null
  IN IF ~skipCache /\ looked.value # Undefined
       THEN Outcome(cache1, b, looked.value, <<>>, <<>>)
     ELSE IF ~nativeOk
       THEN Outcome(cache1, b,
                    IF default # Undefined THEN default ELSE StorageError("GET_ERROR"),
                    <<>>, calls)
     ELSE IF result = Null /\ default # Undefined
       THEN Outcome(cache1, b, default, <<>>, calls)
     ELSE Outcome(IF value # Null /\ ~skipCache
                    THEN cache_set(cache1, key, value, 0, t) ELSE cache1,
                  b, value, <<>>, calls)

\* a removeItem that removes the cache entry only once the native call
\* has resolved true
removeItem_afterSuccess(self, b, t, key, native) ==
  LET cache1 == cache_remove(self.cache, key)
      namespacedKey == _getNamespacedKey(self.namespace, key)
      calls == <<NativeCall("removeItem", <<namespacedKey>>)>>
  IN IF native = "reject"
       THEN Outcome(self.cache, b, StorageError("REMOVE_ERROR"), <<>>, calls)
     ELSE IF native = "false"
       THEN Outcome(self.cache, b, Bool(FALSE), <<>>, calls)
     ELSE Outcome(cache1, native_removeKeys(b, {namespacedKey}),
                  Bool(TRUE), <<Event("remove", key, Undefined)>>, calls)

\* removeItem(key); native is what RNPureStorage.removeItem does
removeItem(self, b, t, key, native) ==
  LET cache1 == cache_remove(self.cache, key)
      namespacedKey == _getNamespacedKey(self.namespace, key)
      calls == <<NativeCall("removeItem", <<namespacedKey>>)>>
  IN IF native = "reject"
       THEN Outcome(cache1, b, StorageError("REMOVE_ERROR"), <<>>, calls)
     ELSE IF native = "false"
       THEN Outcome(cache1, b, Bool(FALSE), <<>>, calls)
     ELSE Outcome(cache1, native_removeKeys(b, {namespacedKey}),
                  Bool(TRUE), <<Event("remove", key, Undefined)>>, calls)

RECURSIVE multiSetMap(_, _, _, _, _)
\* the map callback of multiSet over the entries: the cache afterwards
\* and the serialized entries, or failed at the first value that
\* does not serialize
multiSetMap(self, cache, t, pairs, skipCache) ==
  IF pairs = <<>> THEN [cache |-> cache, failed |-> FALSE, serialized |-> <<>>]
  ELSE LET key == Head(pairs).k
           value == Head(pairs).v
           cache1 == IF skipCache THEN cache ELSE cache_set(cache, key, value, 0, t)
           serializedValue == instance_serializeValue(value)
       IN IF "type" \notin DOMAIN serializedValue
            THEN [cache |-> cache1, failed |-> TRUE, serialized |-> <<>>]
            ELSE LET rest == multiSetMap(self, cache1, t, Tail(pairs), skipCache)
                 IN [rest EXCEPT !.serialized =
                       <<[key |-> _getNamespacedKey(self.namespace, key),
                          type |-> serializedValue.type,
                          value |-> serializedValue.value]>> \o @]

\* multiSet(keyValuePairs, {skipCache}); keyValuePairs is the sequence of
\* the object's [k, v] entries.  The native call rejects an empty array.
multiSet(self, b, t, pairs, skipCache, native) ==
  LET m == multiSetMap(self, self.cache, t, pairs, skipCache)
      calls == <<NativeCall("multiSet",
                            [i \in 1..Len(m.serialized) |-> m.serialized[i].key])>>
  IN IF m.failed
       THEN Outcome(m.cache, b, StorageError("MULTI_SET_ERROR"), <<>>, <<>>)
     ELSE IF m.serialized = <<>> \/ native = "reject"
       THEN Outcome(m.cache, b, StorageError("MULTI_SET_ERROR"), <<>>, calls)
     ELSE IF native = "false"
       THEN Outcome(m.cache, b, Bool(FALSE), <<>>, calls)
     ELSE Outcome(m.cache, native_multiSet(b, m.serialized), Bool(TRUE),
                  [i \in 1..Len(pairs) |-> Event("set", pairs[i].k, pairs[i].v)],
                  calls)

RECURSIVE multiGetScan(_, _, _, _)
\* the first loop of multiGet over keys: the cache after the lookups, the
\* result object filled from the cache and keysToFetch
multiGetScan(acc, t, keys, skipCache) ==
  IF keys = <<>> THEN acc
  ELSE LET key == Head(keys)
           looked == cache_get(acc.cache, key, t)
       IN multiGetScan(
            IF skipCache
              THEN [acc EXCEPT !.keysToFetch = Append(@, key)]
            ELSE IF looked.value # Undefined
              THEN [cache |-> looked.c,
                    result |-> MapSet(acc.result, key, looked.value),
                    keysToFetch |-> acc.keysToFetch]
              ELSE [cache |-> looked.c, result |-> acc.result,
                    keysToFetch |-> Append(acc.keysToFetch, key)],
            t, Tail(keys), skipCache)

\* keysToFetch of multiGet(keys, {skipCache})
multiGet_keysToFetch(self, t, keys, skipCache) ==
  multiGetScan([cache |-> self.cache, result |-> <<>>, keysToFetch |-> <<>>],
               t, keys, skipCache).keysToFetch

RECURSIVE multiGetFill_always(_, _, _, _, _, _)
\* a second loop of multiGet that caches what it fetched whatever skipCache is
multiGetFill_always(acc, self, b, t, fetched, skipCache) ==
  IF fetched = <<>> THEN acc
  ELSE LET originalKey == Head(fetched)
           value == native_getItem(b, _getNamespacedKey(self.namespace, originalKey))
           deserializedValue ==
             IF value # Null THEN instance_deserializeValue(value) ELSE Null
       IN multiGetFill_always(
            [cache |-> IF deserializedValue # Null
                         THEN cache_set(acc.cache, originalKey, deserializedValue, 0, t)
                         ELSE acc.cache,
             result |-> MapSet(acc.result, originalKey, deserializedValue)],
            self, b, t, Tail(fetched), skipCache)

RECURSIVE multiGetFill(_, _, _, _, _, _)
\* the loop of multiGet over the entries of fetchedResults, whose keys are
\* the namespaced keys of fetched, in that order
multiGetFill(acc, self, b, t, fetched, skipCache) ==
  IF fetched = <<>> THEN acc
  ELSE LET originalKey == Head(fetched)
           value == native_getItem(b, _getNamespacedKey(self.namespace, originalKey))
           deserializedValue ==
             IF value # Null THEN instance_deserializeValue(value) ELSE Null
       IN multiGetFill(
            [cache |-> IF deserializedValue # Null /\ ~skipCache
                         THEN cache_set(acc.cache, originalKey, deserializedValue, 0, t)
                         ELSE acc.cache,
             result |-> MapSet(acc.result, originalKey, deserializedValue)],
            self, b, t, Tail(fetched), skipCache)

\* the orders in which the object RNPureStorage.multiGet resolves to can
\* list the keys asked for (each key once)
Listings(keys) ==
  {l \in [1..Cardinality(Range(keys)) -> Range(keys)] :
     \A i, j \in DOMAIN l : i # j => l[i] # l[j]}

\* multiGet(keys, {skipCache}); nativeOk: RNPureStorage.multiGet resolves;
\* fetched: the keys it was asked for in the order its result lists them
multiGet(self, b, t, keys, skipCache, nativeOk, fetched) ==
  LET scan == multiGetScan([cache |-> self.cache, result |-> <<>>,
                            keysToFetch |-> <<>>], t, keys, skipCache)
      namespacedKeys == [i \in 1..Len(scan.keysToFetch) |->
                           _getNamespacedKey(self.namespace, scan.keysToFetch[i])]
      calls == <<NativeCall("multiGet", namespacedKeys)>>
      filled == multiGetFill([cache |-> scan.cache, result |-> scan.result],
                             self, b, t, fetched, skipCache)
  IN IF scan.keysToFetch = <<>>
       THEN Outcome(scan.cache, b, Obj(scan.result), <<>>, <<>>)
     ELSE IF ~nativeOk
       THEN Outcome(scan.cache, b, StorageError("MULTI_GET_ERROR"), <<>>, calls)
     ELSE Outcome(filled.cache, b, Obj(filled.result), <<>>, calls)

RECURSIVE cache_removeAll(_, _)
cache_removeAll(cache, keys) ==
  IF keys = <<>> THEN cache
  ELSE cache_removeAll(cache_remove(cache, Head(keys)), Tail(keys))

\* a multiRemove that emits one event for the whole batch
multiRemove_batched(self, b, t, keys, native) ==
  LET cache1 == cache_removeAll(self.cache, keys)
      namespacedKeys == [i \in 1..Len(keys) |-> _getNamespacedKey(self.namespace, keys[i])]
      calls == <<NativeCall("multiRemove", namespacedKeys)>>
  IN IF keys = <<>> \/ native = "reject"
       THEN Outcome(cache1, b, StorageError("MULTI_REMOVE_ERROR"), <<>>, calls)
     ELSE IF native = "false"
       THEN Outcome(cache1, b, Bool(FALSE), <<>>, calls)
     ELSE Outcome(cache1, native_removeKeys(b, Range(namespacedKeys)), Bool(TRUE),
                  <<Event("remove", keys[1], Undefined)>>, calls)

\* multiRemove(keys); the native call rejects an empty array
multiRemove(self, b, t, keys, native) ==
  LET cache1 == cache_removeAll(self.cache, keys)
      namespacedKeys == [i \in 1..Len(keys) |-> _getNamespacedKey(self.namespace, keys[i])]
      calls == <<NativeCall("multiRemove", namespacedKeys)>>
  IN IF keys = <<>> \/ native = "reject"
       THEN Outcome(cache1, b, StorageError("MULTI_REMOVE_ERROR"), <<>>, calls)
     ELSE IF native = "false"
       THEN Outcome(cache1, b, Bool(FALSE), <<>>, calls)
     ELSE Outcome(cache1, native_removeKeys(b, Range(namespacedKeys)), Bool(TRUE),
                  [i \in 1..Len(keys) |-> Event("remove", keys[i], Undefined)], calls)

\* the keys getAllKeys() resolves to (the backend lists them in no fixed order)
allKeysOf(self, b) ==
  LET namespacePrefix == self.namespace \o <<":">>
  IN {substring(key, Len(namespacePrefix)) :
        key \in {k \in native_getAllKeys(b) : startsWith(k, namespacePrefix)}}

KeyList(keys) == [t |-> "keys", keys |-> keys]

\* getAllKeys()
getAllKeys(self, b, t, nativeOk) ==
  Outcome(self.cache, b,
          IF nativeOk THEN KeyList(allKeysOf(self, b))
                      ELSE StorageError("GET_KEYS_ERROR"),
          <<>>, <<NativeCall("getAllKeys", <<>>)>>)

\* clear(); keysOk: RNPureStorage.getAllKeys resolves; native is what
\* RNPureStorage.multiRemove does
clear(self, b, t, keysOk, native) ==
  LET cache1 == cache_clear(self.cache)
      allKeys == allKeysOf(self, b)
      namespacedKeys == {_getNamespacedKey(self.namespace, key) : key \in allKeys}
      listed == <<NativeCall("getAllKeys", <<>>)>>
      calls == Append(listed, [method |-> "multiRemove", keySet |-> namespacedKeys])
  IN IF ~keysOk
       THEN Outcome(cache1, b, StorageError("CLEAR_ERROR"), <<>>, listed)
     ELSE IF allKeys = {}
       THEN Outcome(cache1, b, Bool(TRUE), <<>>, listed)
     ELSE IF native = "reject"
       THEN Outcome(cache1, b, StorageError("CLEAR_ERROR"), <<>>, calls)
     ELSE IF native = "false"
       THEN Outcome(cache1, b, Bool(FALSE), <<>>, calls)
     ELSE Outcome(cache1, native_removeKeys(b, namespacedKeys), Bool(TRUE),
                  <<Event("clear", Undefined, Undefined)>>, calls)

\* hasKey(key, {skipCache}); nativeOk: RNPureStorage.hasKey resolves
hasKey(self, b, t, key, skipCache, nativeOk) ==
  LET looked == cache_get(self.cache, key, t)
      namespacedKey == _getNamespacedKey(self.namespace, key)
      calls == <<NativeCall("hasKey", <<namespacedKey>>)>>
  IN IF ~skipCache /\ looked.value # Undefined
       THEN Outcome(looked.c, b, Bool(TRUE), <<>>, <<>>)
     ELSE Outcome(IF skipCache THEN self.cache ELSE looked.c, b,
                  IF nativeOk THEN Bool(native_hasKey(b, namespacedKey))
                              ELSE StorageError("HAS_KEY_ERROR"),
                  <<>>, calls)

(***************************************************************************)
(* The PureStorage object of index.js over defaultInstance.  Each method   *)
(* yields the outcome of the instance call plus global: the events handed  *)
(* to the global change handlers.                                          *)
(***************************************************************************)
\* PureStorage.setItem(key, value, options)
PureStorage_setItem(self, b, t, key, value, skipCache, native) ==
  LET r == setItem(self, b, t, key, value, skipCache, native)
  IN [cache |-> r.cache, backend |-> r.backend, result |-> r.result,
      events |-> r.events, calls |-> r.calls,
      global |-> IF r.result = Bool(TRUE) THEN <<Event("set", key, value)>> ELSE <<>>]

\* PureStorage.getItem(key, options)
PureStorage_getItem(self, b, t, key, skipCache) ==
  getItem(self, b, t, key, skipCache, Undefined, TRUE)

\* PureStorage.setBinaryItem(key, data, options); options.compression is
\* passed on with the options and read by nothing
setBinaryItem(self, b, t, key, data, skipCache, compression, native) ==
  IF data.t # "binary"
    THEN [cache |-> self.cache, backend |-> b,
          result |-> Throw("SerializationError"), events |-> <<>>,
          calls |-> <<>>, global |-> <<>>]
    ELSE PureStorage_setItem(self, b, t, key, data, skipCache, native)

\* the code of a character the model's strings use
charCodeAt(c) ==
  CASE c = "A" -> 65 [] c = "x" -> 120 [] c = "d" -> 100 [] OTHER -> 63

\* PureStorage.getBinaryItem(key, {skipCache, returnType})
getBinaryItem(self, b, t, key, skipCache, returnType) ==
  LET r == PureStorage_getItem(self, b, t, key, skipCache)
      value == r.result
  IN [r EXCEPT !.result =
        IF value = Null THEN Null
        ELSE IF value.t # "binary"
          THEN IF typeof(value) = "string"
                 THEN WholeBuffer("Uint8Array",
                                  [i \in 1..Len(value.s) |-> charCodeAt(value.s[i])])
                 ELSE Throw("SerializationError")
        ELSE IF returnType = "ArrayBuffer" /\ value.kind # "ArrayBuffer"
          THEN WholeBuffer("ArrayBuffer", value.buffer)
        ELSE IF returnType = "Uint8Array" /\ value.kind # "Uint8Array"
          THEN WholeBuffer("Uint8Array", value.buffer)
        ELSE value]

(***************************************************************************)
(* Three specifications over the store, one call at a time.  SpecStore:    *)
(* the single-key methods of one StorageInstance.  SpecNamespaces: two     *)
(* StorageInstances made by getInstance over one backend; the second       *)
(* instance's namespace is either plain or contains ':'.  SpecBinary: the  *)
(* binary methods of PureStorage over defaultInstance.  All give the       *)
(* instances a cache of one entry that lives one tick                      *)
(* (cache: {maxSize: 1, ttl: 1}), so that eviction and expiry happen       *)
(* within a few calls.                                                     *)
(***************************************************************************)
StoreCacheOptions == [maxSize |-> 1, ttl |-> 1]
EmptyBackend == [k \in {} |-> Null]

\* new StorageInstance({namespace, cache: StoreCacheOptions}); handlers are
\* kept in the order in which they were added
StorageInstanceWith(namespace, options) ==
  [namespace |-> namespace,
   cache |-> createCache(options.maxSize, options.ttl),
   changeHandlers |-> <<>>,
   keyHandlers |-> <<>>]

StorageInstance(namespace) == StorageInstanceWith(namespace, StoreCacheOptions)

RECURSIVE Flatten(_)
Flatten(seqs) == IF seqs = <<>> THEN <<>> ELSE Head(seqs) \o Flatten(Tail(seqs))

\* the handlers that throw when they are called
ThrowingCallbacks == {1}

\* one handler call: threw, the handler threw; caught, the try block around
\* the call caught what it threw
Delivery(handler, event, caught) ==
  [handler |-> handler, event |-> event,
   threw |-> handler \in ThrowingCallbacks,
   caught |-> handler \in ThrowingCallbacks /\ caught]

\* an _emitChange that calls the handlers of every key
emitChange_broadcast(self, event) ==
  LET forKey == Flatten([i \in DOMAIN self.keyHandlers |-> self.keyHandlers[i].v])
      called == self.changeHandlers \o forKey
  IN [i \in 1..Len(called) |-> Delivery(called[i], event, TRUE)]

\* an _emitChange without the try blocks: the first handler that throws ends
\* the loop and its exception leaves _emitChange
emitChange_abort(self, event) ==
  LET forKey == IF event.type # "clear" /\ MapHas(self.keyHandlers, event.key)
                  THEN MapGet(self.keyHandlers, event.key) ELSE <<>>
      called == self.changeHandlers \o forKey
      thrower == {i \in 1..Len(called) : called[i] \in ThrowingCallbacks}
      last == IF thrower = {} THEN Len(called)
              ELSE CHOOSE i \in thrower : \A j \in thrower : i <= j
  IN [i \in 1..last |-> Delivery(called[i], event, FALSE)]

\* _emitChange(event): the handlers called, in order, each with the event and
\* each inside a try block of its own
emitChange(self, event) ==
  LET forKey == IF event.type # "clear" /\ MapHas(self.keyHandlers, event.key)
                  THEN MapGet(self.keyHandlers, event.key) ELSE <<>>
      called == self.changeHandlers \o forKey
  IN [i \in 1..Len(called) |-> Delivery(called[i], event, TRUE)]

\* an exception left a handler call of delivered uncaught
Escaped(delivered) == \E i \in DOMAIN delivered : delivered[i].threw /\ ~delivered[i].caught

RECURSIVE emitAll(_, _)
\* the _emitChange calls of one method call, in order
emitAll(self, events) ==
  IF events = <<>> THEN <<>>
  ELSE LET first == emitChange(self, Head(events))
       IN IF Escaped(first) THEN first
          ELSE first \o emitAll(self, Tail(events))

\* the code of the StorageError the catch block of method op throws
catchCode(op) ==
  CASE op \in {"setItem", "setItemSync"} -> "SET_ERROR"
    [] op = "removeItem" -> "REMOVE_ERROR"
    [] op = "multiSet" -> "MULTI_SET_ERROR"
    [] op = "multiRemove" -> "MULTI_REMOVE_ERROR"
    [] op = "clear" -> "CLEAR_ERROR"
    [] op \in {"getItem", "getItemSync"} -> "GET_ERROR"
    [] op = "multiGet" -> "MULTI_GET_ERROR"
    [] op = "getAllKeys" -> "GET_KEYS_ERROR"
    [] op = "hasKey" -> "HAS_KEY_ERROR"

\* Set.prototype.add and delete on a Set kept in insertion order
SetAdd(set, x) == IF x \in Range(set) THEN set ELSE Append(set, x)
SetDelete(set, x) == LET keep(y) == y # x IN SelectSeq(set, keep)

\* onChange(callback): the instance afterwards
onChange(self, callback) ==
  [self EXCEPT !.changeHandlers = SetAdd(@, callback)]

\* the function onChange(callback) returned, called
onChange_remove(self, callback) ==
  [self EXCEPT !.changeHandlers = SetDelete(@, callback)]

\* onKeyChange(key, callback): the instance afterwards
onKeyChange(self, key, callback) ==
  LET handlers == IF MapHas(self.keyHandlers, key)
                    THEN MapGet(self.keyHandlers, key) ELSE <<>>
  IN [self EXCEPT !.keyHandlers = MapSet(@, key, SetAdd(handlers, callback))]

\* a remover that deletes the callback and keeps the entry of the key
onKeyChange_remove_keepEntry(self, key, callback) ==
  IF ~MapHas(self.keyHandlers, key) THEN self
  ELSE [self EXCEPT !.keyHandlers =
          MapSet(@, key, SetDelete(MapGet(self.keyHandlers, key), callback))]

\* the function onKeyChange(key, callback) returned, called
onKeyChange_remove(self, key, callback) ==
  IF ~MapHas(self.keyHandlers, key) THEN self
  ELSE LET handlers == SetDelete(MapGet(self.keyHandlers, key), callback)
       IN [self EXCEPT !.keyHandlers =
             IF handlers = <<>> THEN MapDelete(@, key) ELSE MapSet(@, key, handlers)]

\* the cache of self holds an entry for key that is not expired at time t
IsLive(self, key, t) ==
  MapHas(self.cache.cache, key) /\ ~cache_isExpired(self.cache, key, t)

\* the value of that entry
LiveEntry(self, key, t) ==
  IF IsLive(self, key, t) THEN MapGet(self.cache.cache, key) ELSE Undefined

NoCall ==
  [op |-> "none", inst |-> 0, key |-> <<>>, value |-> Undefined,
   skipCache |-> FALSE, native |-> "true", at |-> 0, live |-> FALSE,
   cached |-> Undefined,
   stored |-> Null, result |-> Undefined, events |-> <<>>, delivered |-> <<>>,
   calls |-> <<>>, global |-> <<>>, rejected |-> FALSE]

\* the call a later read is compared with: a setItem or setBinaryItem
LastWrite(call) ==
  IF call.op \in {"setItem", "setBinaryItem"}
    THEN [f \in DOMAIN NoCall |-> call[f]] ELSE NoCall

NativeOf(nativeOk) == IF nativeOk THEN "true" ELSE "reject"

\* the record of the call (op, id, key, value, skipCache) made when the
\* native call does what native says, with outcome r.  at: the time of the
\* call; live, cached: the live cache entry of key before the call; stored: the
\* item the backend held for key before the call; delivered: the handlers
\* called; rejected: the backend has failed this call or an earlier one
Call(op, id, key, value, skipCache, native, r) ==
  [op |-> op, inst |-> id, key |-> key, value |-> value, skipCache |-> skipCache,
   native |-> native, at |-> clock,
   live |-> IsLive(instances[id], key, clock),
   cached |-> LiveEntry(instances[id], key, clock),
   stored |-> native_getItem(backend, _getNamespacedKey(instances[id].namespace, key)),
   result |-> IF Escaped(emitAll(instances[id], r.events))
                THEN StorageError(catchCode(op)) ELSE r.result,
   events |-> r.events,
   delivered |-> emitAll(instances[id], r.events),
   calls |-> r.calls,
   global |-> IF "global" \in DOMAIN r THEN r.global ELSE <<>>,
   rejected |-> storeLast.rejected \/ native # "true",
   prev |-> LastWrite(storeLast)]

\* one whole call on instance id: its effects on the cache and the backend
Apply(op, id, key, value, skipCache, native, r) ==
  /\ opCount < MaxOps
  /\ instances' = [instances EXCEPT ![id].cache = r.cache]
  /\ backend' = r.backend
  /\ storeLast' = Call(op, id, key, value, skipCache, native, r)
  /\ opCount' = opCount + 1
  /\ UNCHANGED <<clock, syncAvailable>>
  /\ OtherUnchanged("store")

StoreInitOn(insts) ==
  /\ backend = EmptyBackend
  /\ instances = insts
  /\ clock = 0
  /\ storeLast = [f \in DOMAIN NoCall \cup {"prev"} |->
                    IF f = "prev" THEN NoCall ELSE NoCall[f]]
  /\ opCount = 0
  /\ OtherInit("store")

\* before the first call: the given instances over an empty backend, on a
\* platform whose native module has the synchronous methods (iOS exports
\* them, Android does not)
StoreInitWith(insts) ==
  /\ syncAvailable = TRUE
  /\ StoreInitOn(insts)

\* time passes between two calls
StoreTick ==
  /\ clock < MaxTime
  /\ clock' = clock + 1
  /\ UNCHANGED <<backend, instances, storeLast, opCount, syncAvailable>>
  /\ OtherUnchanged("store")

\* SpecStore
StoreKeys == {<<"k">>, <<"j">>}
StoreValues == {Str(<<"x">>), Num(1)}
StoreDefaults == {Undefined, Str(<<"d">>)}

StoreInit == StoreInitWith(<<StorageInstance(<<"a">>)>>)

SetItem ==
  \E key \in StoreKeys, value \in StoreValues, skipCache \in BOOLEAN,
     native \in NativeOutcomes :
    Apply("setItem", 1, key, value, skipCache, native,
          setItem(instances[1], backend, clock, key, value, skipCache, native))

GetItem ==
  \E key \in StoreKeys, skipCache \in BOOLEAN, default \in StoreDefaults :
    Apply("getItem", 1, key, default, skipCache, "true",
          getItem(instances[1], backend, clock, key, skipCache, default, TRUE))

RemoveItem ==
  \E key \in StoreKeys, nativeOk \in BOOLEAN :
    Apply("removeItem", 1, key, Undefined, FALSE, NativeOf(nativeOk),
          removeItem(instances[1], backend, clock, key, NativeOf(nativeOk)))

HasKey ==
  \E key \in StoreKeys, skipCache \in BOOLEAN :
    Apply("hasKey", 1, key, Undefined, skipCache, "true",
          hasKey(instances[1], backend, clock, key, skipCache, TRUE))

StoreNext == SetItem \/ GetItem \/ RemoveItem \/ HasKey \/ StoreTick

SpecStore == StoreInit /\ [][StoreNext]_vars

\* SpecNamespaces
FirstNamespace == <<"a">>
SecondNamespaces == {<<"b">>, <<"a", ":", "b">>}
NsKeys == {<<"k">>, <<"b", ":", "k">>}
NsValue == Str(<<"x">>)
NsPairs ==
  {<<>>, <<[k |-> <<"k">>, v |-> NsValue]>>,
   <<[k |-> <<"b", ":", "k">>, v |-> NsValue], [k |-> <<"k">>, v |-> Num(1)]>>}
NsKeyLists == {<<>>, <<<<"k">>>>, <<<<"b", ":", "k">>, <<"k">>>>}

NsInit ==
  \E ns \in SecondNamespaces :
    StoreInitWith(<<StorageInstance(FirstNamespace), StorageInstance(ns)>>)

NsSetItem ==
  \E id \in DOMAIN instances, key \in NsKeys :
    Apply("setItem", id, key, NsValue, FALSE, "true",
          setItem(instances[id], backend, clock, key, NsValue, FALSE, "true"))

NsMultiSet ==
  \E id \in DOMAIN instances, pairs \in NsPairs :
    Apply("multiSet", id, <<>>, Obj(pairs), FALSE, "true",
          multiSet(instances[id], backend, clock, pairs, FALSE, "true"))

NsRemoveItem ==
  \E id \in DOMAIN instances, key \in NsKeys :
    Apply("removeItem", id, key, Undefined, FALSE, "true",
          removeItem(instances[id], backend, clock, key, "true"))

NsMultiRemove ==
  \E id \in DOMAIN instances, keys \in NsKeyLists :
    Apply("multiRemove", id, <<>>, Arr([i \in 1..Len(keys) |-> Str(keys[i])]),
          FALSE, "true",
          multiRemove(instances[id], backend, clock, keys, "true"))

NsClear ==
  \E id \in DOMAIN instances :
    Apply("clear", id, <<>>, Undefined, FALSE, "true",
          clear(instances[id], backend, clock, TRUE, "true"))

NsGetItem ==
  \E id \in DOMAIN instances, key \in NsKeys :
    Apply("getItem", id, key, Undefined, TRUE, "true",
          getItem(instances[id], backend, clock, key, TRUE, Undefined, TRUE))

NsHasKey ==
  \E id \in DOMAIN instances, key \in NsKeys :
    Apply("hasKey", id, key, Undefined, FALSE, "true",
          hasKey(instances[id], backend, clock, key, FALSE, TRUE))

NsGetAllKeys ==
  \E id \in DOMAIN instances :
    Apply("getAllKeys", id, <<>>, Undefined, FALSE, "true",
          getAllKeys(instances[id], backend, clock, TRUE))

NsNext ==
  \/ NsSetItem \/ NsMultiSet \/ NsRemoveItem \/ NsMultiRemove \/ NsClear
  \/ NsGetItem \/ NsHasKey \/ NsGetAllKeys

SpecNamespaces == NsInit /\ [][NsNext]_vars

\* SpecBinary
BinaryKey == <<"k">>
StringKey == <<"j">>
DefaultNamespace == <<"d", "e", "f", "a", "u", "l", "t">>
StoreBinaries ==
  {WholeBuffer("ArrayBuffer", <<65>>), WholeBuffer("Uint8Array", <<0, 255>>),
   Bin("Uint8Array", <<0, 255>>, 1, 1), WholeBuffer("Int16Array", <<0, 255>>)}
\* options.returnType as the call record keeps it
ReturnType(name) == [t |-> "returnType", name |-> name]
ReturnTypes == {"Uint8Array", "ArrayBuffer", "Int16Array"}

BinaryInit == StoreInitWith(<<StorageInstance(DefaultNamespace)>>)

SetBinaryItem ==
  \E data \in StoreBinaries, skipCache \in BOOLEAN, compression \in BOOLEAN :
    Apply("setBinaryItem", 1, BinaryKey, data, skipCache, "true",
          setBinaryItem(instances[1], backend, clock, BinaryKey, data, skipCache,
                        compression, "true"))

GetBinaryItem ==
  \E key \in {BinaryKey, StringKey}, skipCache \in BOOLEAN,
     returnType \in ReturnTypes :
    Apply("getBinaryItem", 1, key, ReturnType(returnType), skipCache, "true",
          getBinaryItem(instances[1], backend, clock, key, skipCache, returnType))

\* PureStorage.setItem of a string under the other key
SetStringItem ==
  Apply("setItem", 1, StringKey, Str(<<"A">>), FALSE, "true",
        PureStorage_setItem(instances[1], backend, clock, StringKey, Str(<<"A">>),
                            FALSE, "true"))

BinaryNext == SetBinaryItem \/ GetBinaryItem \/ SetStringItem \/ StoreTick

SpecBinary == BinaryInit /\ [][BinaryNext]_vars

(***************************************************************************)
(* SpecEvents: one instance whose handlers are registered and removed      *)
(* between mutating calls whose native call succeeds, resolves false or    *)
(* rejects.                                                                *)
(***************************************************************************)
Callbacks == {1, 2}
EvKeys == {<<"a">>, <<"b">>}
EvValue == Str(<<"x">>)
EvPairs ==
  {<<[k |-> <<"a">>, v |-> EvValue]>>,
   <<[k |-> <<"a">>, v |-> Num(1)], [k |-> <<"b">>, v |-> EvValue]>>}
EvKeyLists == {<<>>, <<<<"b">>>>, <<<<"a">>, <<"b">>>>, <<<<"a">>, <<"a">>>>}

EvInit == StoreInitWith(<<StorageInstance(<<"a">>)>>)

\* a call that changes the handlers of instance id and nothing else
Register(op, id, key, callback, self1) ==
  /\ opCount < MaxOps
  /\ self1 # instances[id]
  /\ instances' = [instances EXCEPT ![id] = self1]
  /\ storeLast' = Call(op, id, key, Num(callback), FALSE, "true",
                       Outcome(self1.cache, backend, Undefined, <<>>, <<>>))
  /\ opCount' = opCount + 1
  /\ UNCHANGED <<backend, clock, syncAvailable>>
  /\ OtherUnchanged("store")

OnChange ==
  \E callback \in Callbacks :
    Register("onChange", 1, <<>>, callback, onChange(instances[1], callback))

OnChangeRemove ==
  \E callback \in Callbacks :
    Register("onChange.remove", 1, <<>>, callback,
             onChange_remove(instances[1], callback))

OnKeyChange ==
  \E key \in EvKeys, callback \in Callbacks :
    Register("onKeyChange", 1, key, callback,
             onKeyChange(instances[1], key, callback))

OnKeyChangeRemove ==
  \E key \in EvKeys, callback \in Callbacks :
    Register("onKeyChange.remove", 1, key, callback,
             onKeyChange_remove(instances[1], key, callback))

EvSetItem ==
  \E key \in EvKeys, native \in NativeOutcomes :
    Apply("setItem", 1, key, EvValue, FALSE, native,
          setItem(instances[1], backend, clock, key, EvValue, FALSE, native))

EvRemoveItem ==
  \E key \in EvKeys, native \in NativeOutcomes :
    Apply("removeItem", 1, key, Undefined, FALSE, native,
          removeItem(instances[1], backend, clock, key, native))

EvMultiSet ==
  \E pairs \in EvPairs, native \in NativeOutcomes :
    Apply("multiSet", 1, <<>>, Obj(pairs), FALSE, native,
          multiSet(instances[1], backend, clock, pairs, FALSE, native))

EvMultiRemove ==
  \E keys \in EvKeyLists, native \in NativeOutcomes :
    Apply("multiRemove", 1, <<>>, KeyList(keys), FALSE, native,
          multiRemove(instances[1], backend, clock, keys, native))

EvClear ==
  \E keysOk \in BOOLEAN, native \in NativeOutcomes :
    Apply("clear", 1, <<>>, Undefined, FALSE,
          IF ~keysOk THEN "reject"
          ELSE IF allKeysOf(instances[1], backend) = {} THEN "true" ELSE native,
          clear(instances[1], backend, clock, keysOk, native))

EvNext ==
  \/ OnChange \/ OnChangeRemove \/ OnKeyChange \/ OnKeyChangeRemove
  \/ EvSetItem \/ EvRemoveItem \/ EvMultiSet \/ EvMultiRemove \/ EvClear

SpecEvents == EvInit /\ [][EvNext]_vars

(***************************************************************************)
(* SpecSync: the synchronous methods of one instance, on a platform with   *)
(* or without the native synchronous methods, next to the asynchronous     *)
(* setItem.                                                                *)
(***************************************************************************)
SyncValue == Str(<<"x">>)
SyncMethods == {"setItemSync", "getItemSync"}
AsyncOnly ==
  {"removeItem", "multiSet", "multiGet", "multiRemove", "clear", "getAllKeys",
   "hasKey"}

SyncInit ==
  /\ syncAvailable \in BOOLEAN
  /\ StoreInitOn(<<StorageInstance(<<"a">>)>>)

SyncSetItem ==
  \E key \in StoreKeys, skipCache \in BOOLEAN :
    Apply("setItem", 1, key, SyncValue, skipCache, "true",
          setItem(instances[1], backend, clock, key, SyncValue, skipCache, "true"))

SetItemSync ==
  \E key \in StoreKeys, skipCache \in BOOLEAN, native \in NativeOutcomes :
    Apply("setItemSync", 1, key, SyncValue, skipCache, native,
          setItemSync(instances[1], backend, clock, key, SyncValue, skipCache,
                      syncAvailable, native))

GetItemSync ==
  \E key \in StoreKeys, skipCache \in BOOLEAN, default \in StoreDefaults,
     nativeOk \in BOOLEAN :
    Apply("getItemSync", 1, key, default, skipCache, NativeOf(nativeOk),
          getItemSync(instances[1], backend, clock, key, skipCache, default,
                      syncAvailable, nativeOk))

\* instance[method + 'Sync'](...) for a method that has no synchronous
\* counterpart in the class
UndefinedSync ==
  \E method \in AsyncOnly :
    Apply(method \o "Sync", 1, <<>>, Undefined, FALSE, "true",
          undefinedMethod(instances[1], backend))

SyncNext == SyncSetItem \/ SetItemSync \/ GetItemSync \/ UndefinedSync \/ StoreTick

SpecSync == SyncInit /\ [][SyncNext]_vars

(***************************************************************************)
(* SpecBatch: multiSet of objects some of whose values do not serialize,   *)
(* and multiGet over what the earlier calls left in the cache and the      *)
(* backend.                                                                *)
(***************************************************************************)
BatchPairs ==
  {<<[k |-> <<"a">>, v |-> Str(<<"x">>)]>>,
   <<[k |-> <<"a">>, v |-> Num(1)], [k |-> <<"b">>, v |-> Func]>>,
   <<[k |-> <<"a">>, v |-> Cyclic], [k |-> <<"b">>, v |-> Str(<<"x">>)]>>,
   <<[k |-> <<"b">>, v |-> Str(<<"x">>)], [k |-> <<"a">>, v |-> Undefined]>>}
BatchKeyLists == {<<>>, <<<<"a">>>>, <<<<"a">>, <<"b">>>>, <<<<"b">>, <<"b">>>>}

\* a cache that holds both keys
BatchCacheOptions == [maxSize |-> 2, ttl |-> 1]

BatchInit == StoreInitWith(<<StorageInstanceWith(<<"a">>, BatchCacheOptions)>>)

\* one whole call of SpecBatch; the record of the call also keeps the cache
\* and the backend the call started from
ApplyBatch(op, value, skipCache, native, r) ==
  /\ opCount < MaxOps
  /\ instances' = [instances EXCEPT ![1].cache = r.cache]
  /\ backend' = r.backend
  /\ storeLast' =
       LET call == Call(op, 1, <<>>, value, skipCache, native, r)
       IN [f \in DOMAIN call \cup {"before"} |->
             IF f = "before" THEN [cache |-> instances[1].cache, backend |-> backend]
                             ELSE call[f]]
  /\ opCount' = opCount + 1
  /\ UNCHANGED <<clock, syncAvailable>>
  /\ OtherUnchanged("store")

MultiSet ==
  \E pairs \in BatchPairs, skipCache \in BOOLEAN, nativeOk \in BOOLEAN :
    ApplyBatch("multiSet", Obj(pairs), skipCache, NativeOf(nativeOk),
               multiSet(instances[1], backend, clock, pairs, skipCache,
                        NativeOf(nativeOk)))

MultiGet ==
  \E keys \in BatchKeyLists, skipCache \in BOOLEAN, nativeOk \in BOOLEAN :
    \E fetched \in Listings(multiGet_keysToFetch(instances[1], clock, keys, skipCache)) :
      ApplyBatch("multiGet", KeyList(keys), skipCache, NativeOf(nativeOk),
                 multiGet(instances[1], backend, clock, keys, skipCache, nativeOk,
                          fetched))

BatchGetItem ==
  \E key \in {<<"a">>, <<"b">>}, skipCache \in BOOLEAN, nativeOk \in BOOLEAN :
    ApplyBatch("getItem", KeyList(<<key>>), skipCache, NativeOf(nativeOk),
               getItem(instances[1], backend, clock, key, skipCache, Undefined,
                       nativeOk))

BatchNext == MultiSet \/ MultiGet \/ BatchGetItem \/ StoreTick

SpecBatch == BatchInit /\ [][BatchNext]_vars

(***************************************************************************)
(* SpecReads: getItem with and without skipCache and default, with a       *)
(* native read that resolves or rejects, over what earlier setItem calls   *)
(* left in the cache and the backend.                                      *)
(***************************************************************************)
ReadValues == {Str(<<"x">>), Undefined}

ReadInit == StoreInitWith(<<StorageInstance(<<"a">>)>>)

ReadSetItem ==
  \E key \in StoreKeys, value \in ReadValues, skipCache \in BOOLEAN :
    Apply("setItem", 1, key, value, skipCache, "true",
          setItem(instances[1], backend, clock, key, value, skipCache, "true"))

ReadGetItem ==
  \E key \in StoreKeys, skipCache \in BOOLEAN, default \in StoreDefaults,
     nativeOk \in BOOLEAN :
    Apply("getItem", 1, key, default, skipCache, NativeOf(nativeOk),
          getItem(instances[1], backend, clock, key, skipCache, default, nativeOk))

ReadRemoveItem ==
  \E key \in StoreKeys :
    Apply("removeItem", 1, key, Undefined, FALSE, "true",
          removeItem(instances[1], backend, clock, key, "true"))

ReadHasKey ==
  \E key \in StoreKeys, skipCache \in BOOLEAN, nativeOk \in BOOLEAN :
    Apply("hasKey", 1, key, Undefined, skipCache, NativeOf(nativeOk),
          hasKey(instances[1], backend, clock, key, skipCache, nativeOk))

ReadNext ==
  ReadSetItem \/ ReadGetItem \/ ReadRemoveItem \/ ReadHasKey \/ StoreTick

SpecReads == ReadInit /\ [][ReadNext]_vars

(***************************************************************************)
(* SpecHandles: two handles PureStorage.getInstance returned for the same  *)
(* namespace, called in turn.                                              *)
(***************************************************************************)
\* PureStorage.getInstance(namespace): a new StorageInstance
getInstance(namespace) == StorageInstance(namespace)

Handles == {1, 2}
HandleKeys == {<<"k">>, <<"j">>}
HandleValues == {Str(<<"x">>), Str(<<"y">>)}

HandleInit == StoreInitWith(<<getInstance(<<"a">>), getInstance(<<"a">>)>>)

HandleSetItem ==
  \E id \in Handles, key \in HandleKeys, value \in HandleValues :
    Apply("setItem", id, key, value, FALSE, "true",
          setItem(instances[id], backend, clock, key, value, FALSE, "true"))

HandleGetItem ==
  \E id \in Handles, key \in HandleKeys :
    Apply("getItem", id, key, Undefined, FALSE, "true",
          getItem(instances[id], backend, clock, key, FALSE, Undefined, TRUE))

HandleOnChange ==
  \E id \in Handles, callback \in Callbacks :
    Register("onChange", id, <<>>, callback, onChange(instances[id], callback))

HandleNext == HandleSetItem \/ HandleGetItem \/ HandleOnChange \/ StoreTick

SpecHandles == HandleInit /\ [][HandleNext]_vars

(***************************************************************************)
(* SpecFacade: the synchronous writes of the PureStorage object of         *)
(* index.js.  Handlers are registered with PureStorage.onChange and        *)
(* PureStorage.onKeyChange in globalChangeHandlers and globalKeyHandlers,  *)
(* which only index.js reads.  When JSIStorage.isAvailable the call is     *)
(* handed to JSIStorage, the wrapper of the JSI host object, which takes   *)
(* the key as it is given; otherwise it goes to defaultInstance.  notified *)
(* lists the handler calls the PureStorage method made.                    *)
(***************************************************************************)
\* what the wrapper's setItemSync does: the host object stores the item under
\* key and returns whether it did, or the call throws
JSIStorage_setItemSync(b, key, value, native) ==
  LET serialized == instance_serializeValue(value)
  IN IF native = "reject" \/ "type" \notin DOMAIN serialized
       THEN [backend |-> b, result |-> Throw("Error")]
     ELSE IF native = "false" THEN [backend |-> b, result |-> Bool(FALSE)]
     ELSE [backend |-> native_setItem(b, key, [type |-> serialized.type,
                                               value |-> serialized.value]),
           result |-> Bool(TRUE)]

\* what the wrapper's removeItemSync does
JSIStorage_removeItemSync(b, key, native) ==
  IF native = "reject" THEN [backend |-> b, result |-> Throw("Error")]
  ELSE IF native = "false" THEN [backend |-> b, result |-> Bool(FALSE)]
  ELSE [backend |-> native_removeKeys(b, {key}), result |-> Bool(TRUE)]

\* the two loops of a PureStorage method that notify: every handler of
\* globalChangeHandlers, then the handlers of the key, each in a try block
PureStorage_notify(changeHandlers, keyHandlers, event) ==
  LET forKey == IF MapHas(keyHandlers, event.key)
                  THEN MapGet(keyHandlers, event.key) ELSE <<>>
      called == changeHandlers \o forKey
  IN [i \in 1..Len(called) |-> Delivery(called[i], event, TRUE)]

\* a PureStorage method that returns what JSIStorage returns
PureStorage_viaJSI(self, j) ==
  [cache |-> self.cache, backend |-> j.backend, result |-> j.result,
   events |-> <<>>, calls |-> <<>>, global |-> <<>>]

\* PureStorage.setItemSync(key, value, options)
PureStorage_setItemSync(self, b, t, key, value, skipCache, jsi, sync, native) ==
  IF jsi THEN PureStorage_viaJSI(self, JSIStorage_setItemSync(b, key, value, native))
  ELSE LET r == setItemSync(self, b, t, key, value, skipCache, sync, native)
       IN [cache |-> r.cache, backend |-> r.backend, result |-> r.result,
           events |-> r.events, calls |-> r.calls,
           global |-> IF r.result = Bool(TRUE) THEN <<Event("set", key, value)>>
                      ELSE <<>>]

\* PureStorage.removeItemSync(key): without JSI, defaultInstance.removeItemSync
\* is not a function and the catch block throws a SyncOperationError
PureStorage_removeItemSync(self, b, key, jsi, native) ==
  IF jsi THEN PureStorage_viaJSI(self, JSIStorage_removeItemSync(b, key, native))
  ELSE LET r == undefinedMethod(self, b)
       IN [cache |-> r.cache, backend |-> r.backend,
           result |-> IF r.result.t = "throw" THEN SyncOperationError ELSE r.result,
           events |-> r.events, calls |-> r.calls,
           global |-> IF r.result = Bool(TRUE)
                        THEN <<Event("remove", key, Undefined)>> ELSE <<>>]

\* PureStorage.jsi.removeItemSync(key); without JSI the wrapper throws
PureStorage_jsi_removeItemSync(self, b, key, jsi, native) ==
  LET j == JSIStorage_removeItemSync(b, key, IF jsi THEN native ELSE "reject")
  IN [PureStorage_viaJSI(self, j) EXCEPT
        !.global = IF j.result = Bool(TRUE)
                     THEN <<Event("remove", key, Undefined)>> ELSE <<>>]

FacadeKeys == {<<"k">>, <<"j">>}
FacadeValue == Str(<<"x">>)

FacadeInit ==
  /\ syncAvailable \in BOOLEAN
  /\ jsiAvailable \in BOOLEAN
  /\ globalChangeHandlers = <<>>
  /\ globalKeyHandlers = <<>>
  /\ backend = EmptyBackend
  /\ instances = <<StorageInstance(DefaultNamespace)>>
  /\ clock = 0
  /\ storeLast = [f \in DOMAIN NoCall \cup {"prev"} |->
                    IF f = "prev" THEN NoCall ELSE NoCall[f]]
  /\ opCount = 0
  /\ OtherInit("facade")

\* one whole call of a PureStorage method; the record of the call also keeps
\* the handler calls the method made
FacadeApply(op, key, value, native, r) ==
  /\ opCount < MaxOps
  /\ instances' = [instances EXCEPT ![1].cache = r.cache]
  /\ backend' = r.backend
  /\ storeLast' =
       LET call == Call(op, 1, key, value, FALSE, native, r)
       IN [f \in DOMAIN call \cup {"notified"} |->
             IF f = "notified"
               THEN Flatten([i \in DOMAIN r.global |->
                               PureStorage_notify(globalChangeHandlers,
                                                  globalKeyHandlers, r.global[i])])
               ELSE call[f]]
  /\ opCount' = opCount + 1
  /\ UNCHANGED <<clock, syncAvailable, facadeVars>>
  /\ OtherUnchanged("facade")

FacadeSetItemSync ==
  \E key \in FacadeKeys, native \in NativeOutcomes :
    FacadeApply("setItemSync", key, FacadeValue, native,
                PureStorage_setItemSync(instances[1], backend, clock, key, FacadeValue,
                                        FALSE, jsiAvailable, syncAvailable, native))

FacadeRemoveItemSync ==
  \E key \in FacadeKeys, native \in NativeOutcomes :
    FacadeApply("removeItemSync", key, Undefined, native,
                PureStorage_removeItemSync(instances[1], backend, key, jsiAvailable,
                                           native))

FacadeJsiRemoveItemSync ==
  \E key \in FacadeKeys, native \in NativeOutcomes :
    FacadeApply("jsi.removeItemSync", key, Undefined, native,
                PureStorage_jsi_removeItemSync(instances[1], backend, key,
                                               jsiAvailable, native))

\* a call that changes the handlers of the PureStorage object and nothing else
FacadeRegister(op, key, callback) ==
  /\ opCount < MaxOps
  /\ storeLast' =
       LET call == Call(op, 1, key, Num(callback), FALSE, "true",
                        Outcome(instances[1].cache, backend, Undefined, <<>>, <<>>))
       IN [f \in DOMAIN call \cup {"notified"} |->
             IF f = "notified" THEN <<>> ELSE call[f]]
  /\ opCount' = opCount + 1
  /\ UNCHANGED <<backend, instances, clock, syncAvailable, jsiAvailable>>
  /\ OtherUnchanged("facade")

\* PureStorage.onChange(callback)
FacadeOnChange ==
  \E callback \in Callbacks :
    /\ callback \notin Range(globalChangeHandlers)
    /\ globalChangeHandlers' = SetAdd(globalChangeHandlers, callback)
    /\ UNCHANGED globalKeyHandlers
    /\ FacadeRegister("onChange", <<>>, callback)

\* PureStorage.onKeyChange(key, callback)
FacadeOnKeyChange ==
  \E key \in FacadeKeys, callback \in Callbacks :
    LET handlers == IF MapHas(globalKeyHandlers, key)
                      THEN MapGet(globalKeyHandlers, key) ELSE <<>>
    IN /\ callback \notin Range(handlers)
       /\ globalKeyHandlers' = MapSet(globalKeyHandlers, key, SetAdd(handlers, callback))
       /\ UNCHANGED globalChangeHandlers
       /\ FacadeRegister("onKeyChange", key, callback)

FacadeNext ==
  \/ FacadeSetItemSync \/ FacadeRemoveItemSync \/ FacadeJsiRemoveItemSync
  \/ FacadeOnChange \/ FacadeOnKeyChange

SpecFacade == FacadeInit /\ [][FacadeNext]_vars

(***************************************************************************)
(* SpecOverlap: writes of one instance that overlap.  setItem and multiSet *)
(* run up to their await, which sets the cache and hands the native call   *)
(* to RNPureStorage, in one step; the native calls take effect and resolve *)
(* in any order, and each write runs its part after the await in a step of *)
(* its own.  inflight lists the writes in the order they started: at is    *)
(* the step a write started at, doneAt the step it finished at (0 while it *)
(* is pending), native what its native call did.                           *)
(***************************************************************************)
MaxWrites == 2

OvKeys == {<<"k">>, <<"j">>}
OvValues == {Str(<<"x">>), Str(<<"y">>)}
OvPairs ==
  {<<[k |-> <<"j">>, v |-> Str(<<"y">>)]>>,
   <<[k |-> <<"k">>, v |-> Str(<<"y">>)], [k |-> <<"j">>, v |-> Str(<<"x">>)]>>}

\* the call of a write as a whole: setItem(k, v) is the write of one pair
writeOf(self, b, t, call, native) ==
  IF call.op = "setItem"
    THEN setItem(self, b, t, call.pairs[1].k, call.pairs[1].v, call.skipCache, native)
    ELSE multiSet(self, b, t, call.pairs, call.skipCache, native)

\* the part of a write before its await: the cache it leaves
write_begin(self, b, t, call) == writeOf(self, b, t, call, "true").cache

\* a write that sets the cache once more when its native call has resolved
write_settle_cacheAfter(self, b, t, call, native) == writeOf(self, b, t, call, native)

\* the part of a write after its await: the native call has taken effect on
\* the backend, the events are emitted, the cache is not touched
write_settle(self, b, t, call, native) ==
  [writeOf(self, b, t, call, native) EXCEPT !.cache = self.cache]

OvInit == StoreInitWith(<<StorageInstanceWith(<<"a">>, BatchCacheOptions)>>)

Begin(op, pairs, skipCache) ==
  LET call == [op |-> op, pairs |-> pairs, skipCache |-> skipCache,
               at |-> opCount + 1, doneAt |-> 0, native |-> "pending"]
  IN /\ Len(inflight) < MaxWrites
     /\ instances' = [instances EXCEPT
                        ![1].cache = write_begin(instances[1], backend, clock, call)]
     /\ inflight' = Append(inflight, call)
     /\ opCount' = opCount + 1
     /\ UNCHANGED <<backend, clock, storeLast, syncAvailable>>
     /\ OtherUnchanged("overlap")

BeginSetItem ==
  \E key \in OvKeys, value \in OvValues, skipCache \in BOOLEAN :
    Begin("setItem", <<[k |-> key, v |-> value]>>, skipCache)

BeginMultiSet ==
  \E pairs \in OvPairs, skipCache \in BOOLEAN : Begin("multiSet", pairs, skipCache)

Settle ==
  \E i \in DOMAIN inflight, native \in NativeOutcomes :
    LET call == inflight[i]
        r == write_settle(instances[1], backend, clock, call, native)
    IN /\ call.doneAt = 0
       /\ instances' = [instances EXCEPT ![1].cache = r.cache]
       /\ backend' = r.backend
       /\ storeLast' = Call(call.op, 1, <<>>, Obj(call.pairs), call.skipCache, native, r)
       /\ inflight' = [inflight EXCEPT ![i].doneAt = opCount + 1, ![i].native = native]
       /\ opCount' = opCount + 1
       /\ UNCHANGED <<clock, syncAvailable>>
       /\ OtherUnchanged("overlap")

OvNext == BeginSetItem \/ BeginMultiSet \/ Settle

SpecOverlap == OvInit /\ [][OvNext]_vars

(***************************************************************************)
(* SpecInterleave: the seven calls of one instance, interleaved.  The      *)
(* backend holds an item from an earlier run of the application and the    *)
(* cache is empty.  Every call runs up to its first await in one step; a   *)
(* native read or listing takes effect in a step of its own (got keeps the *)
(* backend it saw), and the part after the await runs in a later step, so  *)
(* that other calls start and finish in between.  Every native call        *)
(* succeeds.  phase is "await" while the native call has not taken effect, *)
(* "resolved" when it has, "done" when the call has returned.              *)
(***************************************************************************)
MaxCalls == 2

MixKeys == {<<"k">>, <<"j">>}
MixKeyLists == {<<<<"k">>, <<"j">>>>}
MixOld == Str(<<"x">>)
MixNew == Str(<<"y">>)
MixReads == {"getItem", "multiGet"}
MixWrites == {"setItem", "multiSet"}
MixRemoves == {"removeItem", "multiRemove"}

MixInit ==
  /\ backend = native_setItem(EmptyBackend, _getNamespacedKey(<<"a">>, <<"k">>),
                              instance_serializeValue(MixOld))
  /\ instances = <<StorageInstanceWith(<<"a">>, BatchCacheOptions)>>
  /\ clock = 0
  /\ storeLast = [f \in DOMAIN NoCall \cup {"prev"} |->
                    IF f = "prev" THEN NoCall ELSE NoCall[f]]
  /\ opCount = 0
  /\ syncAvailable = TRUE
  /\ OtherInit("store")

\* the pairs a write of keys makes: every key gets the new value
MixPairs(keys) == [i \in DOMAIN keys |-> [k |-> keys[i], v |-> MixNew]]

\* the part of a call before its first await: the cache it leaves and
\* whether it returns without a native call
mix_begin(self, b, t, op, keys) ==
  CASE op \in MixWrites ->
         [cache |-> write_begin(self, b, t, [op |-> op, pairs |-> MixPairs(keys),
                                             skipCache |-> FALSE]),
          returns |-> FALSE]
    [] op = "getItem" ->
         LET looked == cache_get(self.cache, keys[1], t)
         IN [cache |-> looked.c, returns |-> looked.value # Undefined]
    [] op = "multiGet" ->
         LET scan == multiGetScan([cache |-> self.cache, result |-> <<>>,
                                   keysToFetch |-> <<>>], t, keys, FALSE)
         IN [cache |-> scan.cache, returns |-> scan.keysToFetch = <<>>]
    [] op \in MixRemoves -> [cache |-> cache_removeAll(self.cache, keys),
                             returns |-> FALSE]
    [] op = "clear" -> [cache |-> cache_clear(self.cache), returns |-> FALSE]

\* the keys a pending multiGet asked the backend for
mix_keysToFetch(call) ==
  LET asked(key) == key \in call.missed IN SelectSeq(call.keys, asked)

\* the part of a call after its last await, got being the backend its
\* native read or listing saw: the cache and the backend it leaves
mix_settle(self, b, t, call, fetched) ==
  CASE call.op \in MixWrites ->
         [cache |-> self.cache,
          backend |-> write_settle(self, b, t, [op |-> call.op,
                                                pairs |-> MixPairs(call.keys),
                                                skipCache |-> FALSE], "true").backend]
    [] call.op = "getItem" ->
         LET result == native_getItem(call.got,
                                      _getNamespacedKey(self.namespace, call.keys[1]))
             value == IF result # Null THEN instance_deserializeValue(result) ELSE Null
         IN [cache |-> IF value # Null
                         THEN cache_set(self.cache, call.keys[1], value, 0, t)
                         ELSE self.cache,
             backend |-> b]
    [] call.op = "multiGet" ->
         [cache |-> multiGetFill([cache |-> self.cache, result |-> <<>>],
                                 self, call.got, t, fetched, FALSE).cache,
          backend |-> b]
    [] call.op \in MixRemoves ->
         [cache |-> self.cache,
          backend |-> native_removeKeys(b,
                        {_getNamespacedKey(self.namespace, call.keys[i]) :
                           i \in DOMAIN call.keys})]
    [] call.op = "clear" ->
         [cache |-> self.cache,
          backend |-> native_removeKeys(b,
                        {_getNamespacedKey(self.namespace, key) :
                           key \in allKeysOf(self, call.got)})]

MixBegin(op, keys) ==
  LET r == mix_begin(instances[1], backend, clock, op, keys)
      missed == IF op = "multiGet"
                  THEN Range(multiGet_keysToFetch(instances[1], clock, keys, FALSE))
                  ELSE Range(keys)
      call == [op |-> op, keys |-> keys, missed |-> missed, at |-> opCount + 1,
               doneAt |-> IF r.returns THEN opCount + 1 ELSE 0,
               phase |-> IF r.returns THEN "done" ELSE "await",
               got |-> EmptyBackend]
  IN /\ Len(inflight) < MaxCalls
     /\ instances' = [instances EXCEPT ![1].cache = r.cache]
     /\ inflight' = Append(inflight, call)
     /\ opCount' = opCount + 1
     /\ UNCHANGED <<backend, clock, storeLast, syncAvailable>>
     /\ OtherUnchanged("overlap")

MixSetItem == \E key \in MixKeys : MixBegin("setItem", <<key>>)
MixMultiSet == \E keys \in MixKeyLists : MixBegin("multiSet", keys)
MixGetItem == \E key \in MixKeys : MixBegin("getItem", <<key>>)
MixMultiGet == \E keys \in MixKeyLists : MixBegin("multiGet", keys)
MixRemoveItem == \E key \in MixKeys : MixBegin("removeItem", <<key>>)
MixMultiRemove == \E keys \in MixKeyLists : MixBegin("multiRemove", keys)
MixClear == MixBegin("clear", <<>>)

\* the native read of a getItem or multiGet, or the getAllKeys of a clear,
\* takes effect; a clear that finds no key returns
MixResolve ==
  \E i \in DOMAIN inflight :
    LET call == inflight[i]
        empty == call.op = "clear" /\ allKeysOf(instances[1], backend) = {}
    IN /\ call.phase = "await"
       /\ call.op \in MixReads \cup {"clear"}
       /\ inflight' = [inflight EXCEPT
                         ![i].got = backend,
                         ![i].phase = IF empty THEN "done" ELSE "resolved",
                         ![i].doneAt = IF empty THEN opCount + 1 ELSE 0]
       /\ opCount' = opCount + 1
       /\ UNCHANGED <<backend, instances, clock, storeLast, syncAvailable>>
       /\ OtherUnchanged("overlap")

\* the cache and the backend a settled call leaves
MixLeave(r) ==
  /\ instances' = [instances EXCEPT ![1].cache = r.cache]
  /\ backend' = r.backend

\* the part after the last await runs: for a write or a remove the native
\* call takes effect first
MixSettle ==
  \E i \in DOMAIN inflight :
    LET call == inflight[i]
    IN /\ call.phase = IF call.op \in MixReads \cup {"clear"} THEN "resolved"
                       ELSE "await"
       /\ \E fetched \in IF call.op = "multiGet"
                            THEN Listings(mix_keysToFetch(call)) ELSE {<<>>} :
            MixLeave(mix_settle(instances[1], backend, clock, call, fetched))
       /\ inflight' = [inflight EXCEPT ![i].phase = "done",
                                       ![i].doneAt = opCount + 1]
       /\ opCount' = opCount + 1
       /\ UNCHANGED <<clock, storeLast, syncAvailable>>
       /\ OtherUnchanged("overlap")

MixNext ==
  \/ MixSetItem \/ MixMultiSet \/ MixGetItem \/ MixMultiGet
  \/ MixRemoveItem \/ MixMultiRemove \/ MixClear
  \/ MixResolve \/ MixSettle

SpecInterleave == MixInit /\ [][MixNext]_vars

(***************************************************************************)
(* Calls whose key arguments are any JavaScript values.  The methods above *)
(* take the characters of a string key; the operators below add the typeof *)
(* tests the methods make on their key arguments.                          *)
(***************************************************************************)
KeyError == [t |-> "throw", error |-> "KeyError", code |-> "KEY_ERROR"]

\* typeof key === 'string', and the characters of such a key
IsStringKey(key) == key.t = "string"
chars(key) == IF IsStringKey(key) THEN key.s ELSE <<>>

\* the list keys up to its first element that is not a string
stringPrefix(keys) ==
  LET bad == {i \in DOMAIN keys : ~IsStringKey(keys[i])}
      first == IF bad = {} THEN Len(keys) + 1
               ELSE CHOOSE i \in bad : \A j \in bad : i <= j
  IN [i \in 1..(first - 1) |-> chars(keys[i])]

\* the typeof test at the head of setItem, getItem, removeItem and hasKey, r being
\* what the rest of the method does
keyGuard(self, b, key, r) ==
  IF ~IsStringKey(key) THEN Outcome(self.cache, b, KeyError, <<>>, <<>>) ELSE r

\* multiGet(keys, {skipCache}): the first loop throws at the first key that is
\* not a string, after the cache reads of the keys before it
multiGet_anyKeys(self, b, t, keys, skipCache, nativeOk, fetched) ==
  IF \A i \in DOMAIN keys : IsStringKey(keys[i])
    THEN multiGet(self, b, t, stringPrefix(keys), skipCache, nativeOk, fetched)
    ELSE Outcome(multiGetScan([cache |-> self.cache, result |-> <<>>,
                               keysToFetch |-> <<>>],
                              t, stringPrefix(keys), skipCache).cache,
                 b, KeyError, <<>>, <<>>)

\* multiRemove(keys): the loop that empties the cache throws at the first key
\* that is not a string, inside the try block of the method
multiRemove_anyKeys(self, b, t, keys, native) ==
  IF \A i \in DOMAIN keys : IsStringKey(keys[i])
    THEN multiRemove(self, b, t, stringPrefix(keys), native)
    ELSE Outcome(cache_removeAll(self.cache, stringPrefix(keys)), b,
                 StorageError("MULTI_REMOVE_ERROR"), <<>>, <<>>)

(***************************************************************************)
(* SpecKeys: one instance called with keys of any type.  The record of a   *)
(* call keeps its key arguments, in order, as value.                       *)
(***************************************************************************)
AnyKeys == {Str(<<"k">>), Str(<<"j">>), Num(1)}
AnyKeyLists == {keys \in SeqsUpTo(AnyKeys, MaxItems) : keys # <<>>}
KeyValue == Str(<<"x">>)
KeyArgs(keys) == [t |-> "args", keys |-> keys]

KeyInit == StoreInitWith(<<StorageInstance(<<"a">>)>>)

KeySetItem ==
  \E key \in AnyKeys :
    Apply("setItem", 1, chars(key), KeyArgs(<<key>>), FALSE, "true",
          keyGuard(instances[1], backend, key,
                   setItem(instances[1], backend, clock, chars(key), KeyValue,
                           FALSE, "true")))

KeyGetItem ==
  \E key \in AnyKeys, skipCache \in BOOLEAN :
    Apply("getItem", 1, chars(key), KeyArgs(<<key>>), skipCache, "true",
          keyGuard(instances[1], backend, key,
                   getItem(instances[1], backend, clock, chars(key), skipCache,
                           Undefined, TRUE)))

KeyRemoveItem ==
  \E key \in AnyKeys :
    Apply("removeItem", 1, chars(key), KeyArgs(<<key>>), FALSE, "true",
          keyGuard(instances[1], backend, key,
                   removeItem(instances[1], backend, clock, chars(key), "true")))

KeyHasKey ==
  \E key \in AnyKeys, skipCache \in BOOLEAN :
    Apply("hasKey", 1, chars(key), KeyArgs(<<key>>), skipCache, "true",
          keyGuard(instances[1], backend, key,
                   hasKey(instances[1], backend, clock, chars(key), skipCache, TRUE)))

KeyMultiGet ==
  \E keys \in AnyKeyLists, skipCache \in BOOLEAN :
    \E fetched \in Listings(multiGet_keysToFetch(instances[1], clock,
                                                  stringPrefix(keys), skipCache)) :
      Apply("multiGet", 1, <<>>, KeyArgs(keys), skipCache, "true",
            multiGet_anyKeys(instances[1], backend, clock, keys, skipCache, TRUE,
                             fetched))

KeyMultiRemove ==
  \E keys \in AnyKeyLists :
    Apply("multiRemove", 1, <<>>, KeyArgs(keys), FALSE, "true",
          multiRemove_anyKeys(instances[1], backend, clock, keys, "true"))

KeyNext ==
  \/ KeySetItem \/ KeyGetItem \/ KeyRemoveItem \/ KeyHasKey
  \/ KeyMultiGet \/ KeyMultiRemove \/ StoreTick

SpecKeys == KeyInit /\ [][KeyNext]_vars

(***************************************************************************)
(* Claims about the cache engine.                                          *)
(***************************************************************************)
RunKeys(sets) == {sets[i].k : i \in 1..Len(sets)}

\* C8: in a cache built with maxSize = N > 0, after N+1 or more sets of
\* pairwise distinct keys and no other call, exactly the last N keys are
\* present with the values set, and the first key set is absent (a miss).
C8_InsertionOrderEviction ==
  (engine.maxSize > 0 /\ freshRun.ok /\ Len(freshRun.sets) > engine.maxSize) =>
    LET last == LastN(freshRun.sets, engine.maxSize)
        first == freshRun.sets[1].k
    IN /\ PresentKeys(engine) = RunKeys(last)
       /\ first \notin PresentKeys(engine)
       /\ cache_get(engine, first, now).value = Undefined
       /\ \A i \in 1..Len(last) : cache_get(engine, last[i].k, now).value = last[i].v

\* the scenario of C8: maxSize = 3 and four distinct keys set
C8_Witness ==
  /\ engine.maxSize = 3
  /\ freshRun.ok
  /\ Len(freshRun.sets) = 4

\* C9: a cache built with maxSize = N > 0 never holds more than N entries,
\* and a set removes at most one entry.
C9_CapacityBound ==
  /\ engine.maxSize > 0 => cache_size(engine) <= engine.maxSize
  /\ cacheLast.op = "set" => Cardinality(cacheLast.gone) <= 1

\* a set on a full cache that evicted an entry
C9_Witness ==
  /\ engine.maxSize > 0
  /\ cache_size(engine) = engine.maxSize
  /\ cacheLast.op = "set"
  /\ Cardinality(cacheLast.gone) = 1

\* C10: the entry a set evicts is the present entry that was inserted
\* earliest, whatever lookups hit entries before it.
C10_EvictsEarliestInserted ==
  (cacheLast.op = "set" /\ cacheLast.gone # {}) => cacheLast.gone = cacheLast.oldest

\* a set evicted an entry that a get had hit, while an entry never read stayed
C10_Witness ==
  /\ cacheLast.op = "set"
  /\ cacheLast.gone # {}
  /\ cacheLast.gone \subseteq cacheLast.hit
  /\ PresentKeys(engine) \ (cacheLast.hit \cup {cacheLast.key}) # {}

\* the keys of the cache in the order of the Map, oldest first
KeyOrder(c) == [i \in DOMAIN c.cache |-> c.cache[i].k]

\* C34: overwrite is not an insertion.  A set of a key that is present evicts
\* no entry and leaves the size as it is, also when the cache is at capacity,
\* and the key keeps its place in the eviction order; the entry holds the new
\* value.
C34_OverwriteNotInsertion ==
  [][(/\ engine'.stats.sets = engine.stats.sets + 1
      /\ MapHas(engine.cache, cacheLast'.key))
     => /\ KeyOrder(engine') = KeyOrder(engine)
        /\ cache_size(engine') = cache_size(engine)
        /\ engine'.stats.evictions = engine.stats.evictions
        /\ MapGet(engine'.cache, cacheLast'.key) = cacheLast'.value]_vars

\* the oldest key of a full cache of two or more entries has been set again
C34_Witness ==
  /\ cacheLast.op = "set"
  /\ engine.maxSize >= 2
  /\ cache_size(engine) = engine.maxSize
  /\ KeyOrder(engine)[1] = cacheLast.key
  /\ engine.stats.evictions = 0

(***************************************************************************)
(* Claims about run-length compression.                                    *)
(***************************************************************************)
AllDistinct(b) == \A i, j \in 1..Len(b) : i # j => b[i] # b[j]

\* C6: decompressBinary(compressBinary(b).compressed, len(b),
\* compressBinary(b).isCompressed) equals b for every byte sequence b.
C6_RleRoundTrip ==
  rlePc = "decompressed" => rleBack = rleIn

\* a compressed input with a run longer than 255 has been decompressed
C6_Witness ==
  /\ rlePc = "decompressed"
  /\ rleOut.isCompressed
  /\ Len(rleIn) > MaxCount
  /\ \A i \in 1..(MaxCount + 1) : rleIn[i] = rleIn[1]

\* C7: compressBinary reports isCompressed only when the run-length output
\* is strictly shorter than the input, and otherwise returns the input
\* verbatim; an all-distinct input is never compressed and the payload is
\* never longer than the input.
C7_BestEffortCompression ==
  rlePc # "input" =>
    /\ rleOut.isCompressed => Len(rleOut.compressed) < Len(rleIn)
    /\ rleOut.isCompressed => rleOut.compressed = ToUint8(rlePairs(rleIn))
    /\ ~rleOut.isCompressed => rleOut.compressed = rleIn
    /\ ~rleOut.isCompressed => Len(ToUint8(rlePairs(rleIn))) >= Len(rleIn)
    /\ AllDistinct(rleIn) => ~rleOut.isCompressed
    /\ Len(rleOut.compressed) <= Len(rleIn)

\* an input with a repeated byte whose run-length output is not shorter
C7_Witness ==
  /\ rlePc = "compressed"
  /\ ~rleOut.isCompressed
  /\ ~AllDistinct(rleIn)
  /\ Len(ToUint8(rlePairs(rleIn))) = Len(rleIn)

\* the (value, runLength) pairs a byte sequence of even length lists
PairsOf(bytes) == [p \in 1..(Len(bytes) \div 2) |-> <<bytes[2 * p - 1], bytes[2 * p]>>]

C33_WitnessSplit ==
  /\ rlePc = "compressed"
  /\ rleOut.isCompressed
  /\ Len(rleOut.compressed) >= 4
  /\ rleOut.compressed[2] = 255
  /\ rleOut.compressed[3] = rleOut.compressed[1]

(***************************************************************************)
(* Claims about the codec of index.js.                                     *)
(***************************************************************************)
\* C3: for every null, string, number, boolean and JSON-encodable object or
\* array v, deserializeValue(serializeValue(v)) is value-equal to v and has
\* the type of v; serializeValue(42) is {type: 'number', value: '42'}.
C3_ScalarRoundTrip ==
  /\ (codecPc = "deserialized" /\ (JsonEncodable(codecIn) \/ codecIn.t = "number")) =>
       /\ SameValueZero(codecOut, codecIn)
       /\ codecOut.t = codecIn.t
  /\ (codecPc # "input" /\ codecIn = Num(42)) =>
       codecItem = [type |-> "number", value |-> Str(<<"4", "2">>)]

\* the number 42 came back as a number
C3_Witness ==
  /\ codecPc = "deserialized"
  /\ codecIn = Num(42)
  /\ codecOut = Num(42)

\* C4: for every ArrayBuffer or typed array b, with or without compression,
\* deserializeValue(serializeValue(b, opts)) has the element kind of b and
\* the bytes of b, length included.
C4_BinaryRoundTrip ==
  (codecPc = "deserialized" /\ codecIn.t = "binary") =>
    /\ codecOut.t = "binary"
    /\ codecOut.kind = codecIn.kind
    /\ ViewBytes(codecOut) = ViewBytes(codecIn)

(***************************************************************************)
(* Claims about the store.                                                 *)
(***************************************************************************)
Mutators == {"setItem", "multiSet", "removeItem", "multiRemove", "clear"}

\* what instance id reads: getAllKeys(), and getItem(key, {skipCache: true})
\* and hasKey(key) for every key
View(id) ==
  [keys |-> allKeysOf(instances[id], backend),
   items |-> [key \in NsKeys |->
                getItem(instances[id], backend, clock, key, TRUE, Undefined, TRUE).result],
   has |-> [key \in NsKeys |->
              hasKey(instances[id], backend, clock, key, FALSE, TRUE).result]]

\* C1: namespace isolation.  A setItem, multiSet, removeItem, multiRemove or
\* clear on one instance leaves unchanged what every instance of a different
\* namespace reads through getItem (cache skipped), hasKey and getAllKeys,
\* also when a namespace or a key contains ':'.
C1_NamespaceIsolation ==
  [][\A id \in DOMAIN instances :
       (/\ opCount' # opCount
        /\ storeLast'.op \in Mutators
        /\ storeLast'.inst # id
        /\ instances[storeLast'.inst].namespace # instances[id].namespace)
       => View(id)' = View(id)]_vars

\* C2: read-your-writes.  On one instance, when setItem(k, v, opts) has
\* resolved true and the next call is getItem(k, opts2), that call returns v,
\* whatever skipCache is on either call and whatever was cached for k before.
C2_ReadYourWrites ==
  (/\ storeLast.op = "getItem"
   /\ ~storeLast.rejected
   /\ storeLast.prev.op = "setItem"
   /\ storeLast.prev.result = Bool(TRUE)
   /\ storeLast.prev.key = storeLast.key)
  => storeLast.result = storeLast.prev.value

\* C5: binary storage through PureStorage.  When setBinaryItem(k, d, opts) has
\* resolved true and the next call is getBinaryItem(k) with the default return
\* type, that call returns binary data whose bytes are the bytes of d, whether
\* it is served from the cache or from the backend.
C5_BinaryThroughApi ==
  (/\ storeLast.op = "getBinaryItem"
   /\ storeLast.value = ReturnType("Uint8Array")
   /\ storeLast.prev.op = "setBinaryItem"
   /\ storeLast.prev.result = Bool(TRUE)
   /\ storeLast.prev.key = storeLast.key)
  => /\ storeLast.result.t = "binary"
     /\ ViewBytes(storeLast.result) = ViewBytes(storeLast.prev.value)

(***************************************************************************)
(* Claims about TTL expiry in the cache engine.                            *)
(***************************************************************************)
\* the gets of k, since its last set, at more than the set's customTtl after it
LateGets(k) ==
  {i \in 1..Len(ttlLog[k].gets) :
     ttlLog[k].gets[i].t - ttlLog[k].at > ttlLog[k].customTtl}

\* C11: TTL expiry.  After set(k, v, T) with T > 0, a get(k) less than T later
\* returns v; a get(k) more than T later returns a miss and leaves the entry
\* deleted; and all the gets of k more than T later increment stats.evictions
\* exactly once between them.
C11_TtlExpiry ==
  \A k \in TtlKeys :
    (ttlLog[k].isSet /\ ttlLog[k].customTtl > 0) =>
      /\ \A i \in 1..Len(ttlLog[k].gets) :
           LET g == ttlLog[k].gets[i]
           IN /\ (g.t - ttlLog[k].at < ttlLog[k].customTtl) => g.value = ttlLog[k].value
              /\ (g.t - ttlLog[k].at > ttlLog[k].customTtl) =>
                   (g.value = Undefined /\ ~g.present)
      /\ (LateGets(k) # {}) => ttlLog[k].evicts = 1

\* C12: per-call TTL override.  In a cache constructed with ttl = 0, a get(k)
\* more than T after set(k, v, T) with T > 0 is a miss, and every get(k) after
\* a set(k, v) without override returns v.
C12_TtlOverride ==
  engine.ttl = 0 =>
    \A k \in TtlKeys :
      ttlLog[k].isSet =>
        \A i \in 1..Len(ttlLog[k].gets) :
          IF ttlLog[k].customTtl > 0
            THEN (i \in LateGets(k)) => ttlLog[k].gets[i].value = Undefined
            ELSE ttlLog[k].gets[i].value = ttlLog[k].value

(***************************************************************************)
(* Claims about the failure paths and the events of StorageInstance.       *)
(***************************************************************************)
\* the last call is a setItem without skipCache whose native write failed
FailedSet(call) ==
  call.op = "setItem" /\ ~call.skipCache /\ call.native # "true"

Received(callback, event) ==
  Cardinality({i \in DOMAIN storeLast.delivered :
                 /\ storeLast.delivered[i].handler = callback
                 /\ storeLast.delivered[i].event = event})

\* how often an event for key is due to callback: once as a global handler of
\* the instance of the last call and once as a handler of key
Due(callback, key) ==
  LET self == instances[storeLast.inst]
  IN (IF callback \in Range(self.changeHandlers) THEN 1 ELSE 0)
     + (IF MapHas(self.keyHandlers, key)
           /\ callback \in Range(MapGet(self.keyHandlers, key)) THEN 1 ELSE 0)

\* the last call emitted exactly expected, each event to every global handler
\* and to every handler of its key (an event that occurs n times in expected
\* n times)
EmittedExactly(expected) ==
  /\ storeLast.events = expected
  /\ \A d \in Range(storeLast.delivered) : d.event \in Range(expected)
  /\ \A callback \in Callbacks, i \in DOMAIN expected :
       Received(callback, expected[i]) =
         Due(callback, expected[i].key)
           * Cardinality({j \in DOMAIN expected : expected[j] = expected[i]})

\* C14: set events follow backend success only.  A setItem(k, v) whose native
\* write resolves true emits exactly one 'set' event {k, v}, delivered once to
\* each global handler and once to each handler of k; a multiSet whose native
\* write resolves true emits exactly one such event per pair; when the native
\* write resolves false or rejects no event is emitted.
C14_SetEvents ==
  /\ storeLast.op = "setItem" =>
       IF storeLast.native = "true"
         THEN EmittedExactly(<<Event("set", storeLast.key, storeLast.value)>>)
         ELSE EmittedExactly(<<>>)
  /\ storeLast.op = "multiSet" =>
       IF storeLast.native = "true"
         THEN EmittedExactly([i \in DOMAIN storeLast.value.props |->
                                Event("set", storeLast.value.props[i].k,
                                      storeLast.value.props[i].v)])
         ELSE EmittedExactly(<<>>)

\* a multiSet of two pairs succeeded with a global handler and a handler of
\* one of the two keys registered: three deliveries
C14_Witness ==
  /\ storeLast.op = "multiSet"
  /\ storeLast.native = "true"
  /\ Len(storeLast.events) = 2
  /\ Len(storeLast.delivered) = 3

\* a setItem resolved false with a handler registered
C14_WitnessFailure ==
  /\ storeLast.op = "setItem"
  /\ storeLast.native = "false"
  /\ instances[1].changeHandlers # <<>>

\* the namespaced key of the key of the last call
LastNamespacedKey ==
  _getNamespacedKey(instances[storeLast.inst].namespace, storeLast.key)

\* C17: removeItem.  Whether the native removal resolves true, resolves false
\* or rejects, removeItem(k) leaves the cache without an entry for k and makes
\* one native removeItem call for the namespaced key; when it resolves true the
\* backend no longer holds that key and exactly one 'remove' event for k is
\* emitted; otherwise the backend keeps what it held and no event is emitted.
C17_RemoveItem ==
  storeLast.op = "removeItem" =>
    /\ ~MapHas(instances[storeLast.inst].cache.cache, storeLast.key)
    /\ ~MapHas(instances[storeLast.inst].cache.expiry, storeLast.key)
    /\ storeLast.calls = <<NativeCall("removeItem", <<LastNamespacedKey>>)>>
    /\ IF storeLast.native = "true"
         THEN /\ ~native_hasKey(backend, LastNamespacedKey)
              /\ EmittedExactly(<<Event("remove", storeLast.key, Undefined)>>)
         ELSE /\ native_getItem(backend, LastNamespacedKey) = storeLast.stored
              /\ EmittedExactly(<<>>)

\* a removeItem whose native call failed found the key live in the cache
C17_Witness ==
  /\ storeLast.op = "removeItem"
  /\ storeLast.native # "true"
  /\ storeLast.live
  /\ storeLast.stored # Null

\* a removeItem that succeeded delivered its event to a handler
C17_WitnessEvent ==
  /\ storeLast.op = "removeItem"
  /\ storeLast.native = "true"
  /\ storeLast.stored # Null
  /\ storeLast.delivered # <<>>

\* C20: multiRemove.  multiRemove(keys) leaves the cache without an entry for
\* any listed key and makes exactly one native multiRemove call, for the
\* namespaced keys in the order listed; when that call resolves true it emits
\* one 'remove' event per listed key, in order, and the backend holds none of the
\* keys; when it resolves false or rejects it emits no event.
C20_MultiRemove ==
  storeLast.op = "multiRemove" =>
    LET self == instances[storeLast.inst]
        keys == storeLast.value.keys
    IN /\ \A i \in DOMAIN keys : ~MapHas(self.cache.cache, keys[i])
       /\ storeLast.calls =
            <<NativeCall("multiRemove",
                         [i \in DOMAIN keys |->
                            _getNamespacedKey(self.namespace, keys[i])])>>
       /\ (storeLast.native = "true" /\ keys # <<>>) => storeLast.result = Bool(TRUE)
       /\ IF storeLast.result = Bool(TRUE)
            THEN /\ EmittedExactly([i \in DOMAIN keys |->
                                      Event("remove", keys[i], Undefined)])
                 /\ \A i \in DOMAIN keys :
                      ~native_hasKey(backend, _getNamespacedKey(self.namespace, keys[i]))
            ELSE EmittedExactly(<<>>)

\* multiRemove(['a', 'b']) succeeded with a handler registered: two events
C20_Witness ==
  /\ storeLast.op = "multiRemove"
  /\ storeLast.result = Bool(TRUE)
  /\ storeLast.value.keys = <<<<"a">>, <<"b">>>>
  /\ Len(storeLast.events) = 2
  /\ Len(storeLast.delivered) >= 2

\* a multiRemove failed after a listed key had been live in the cache
C20_WitnessFailure ==
  /\ storeLast.op = "multiRemove"
  /\ storeLast.native = "reject"
  /\ storeLast.value.keys # <<>>
  /\ storeLast.prev.op = "setItem"
  /\ storeLast.prev.key \in Range(storeLast.value.keys)

\* the last call emitted one 'clear' event and nothing else, delivered once
\* to each global handler of the instance and to no other handler
EmittedClear ==
  LET event == Event("clear", Undefined, Undefined)
      self == instances[storeLast.inst]
  IN /\ storeLast.events = <<event>>
     /\ Len(storeLast.delivered) = Len(self.changeHandlers)
     /\ \A i \in DOMAIN self.changeHandlers :
          /\ storeLast.delivered[i].handler = self.changeHandlers[i]
          /\ storeLast.delivered[i].event = event

\* C21: clear.  clear() leaves the cache of the instance empty; a clear() that
\* resolves true leaves the backend without any key of the namespace and emits
\* exactly one 'clear' event and no other event, whether the namespace held
\* keys or none.
C21_Clear ==
  storeLast.op = "clear" =>
    /\ instances[storeLast.inst].cache.cache = <<>>
    /\ storeLast.result = Bool(TRUE) =>
         /\ allKeysOf(instances[storeLast.inst], backend) = {}
         /\ EmittedClear

\* how often one emission of event is due to callback
DueFor(callback, event) ==
  IF event.type = "clear"
    THEN (IF callback \in Range(instances[storeLast.inst].changeHandlers)
            THEN 1 ELSE 0)
    ELSE Due(callback, event.key)

\* C25: event routing.  Every event a call emits is delivered once to each
\* handler registered with onChange on the instance and once to each handler
\* registered with onKeyChange(k) for the key k of the event, and to no other
\* handler: a handler registered only for another key, or only for keys when
\* the event is a 'clear' event, does not receive it.
C25_EventRouting ==
  /\ \A d \in Range(storeLast.delivered) : d.event \in Range(storeLast.events)
  /\ \A callback \in Callbacks, i \in DOMAIN storeLast.events :
       Received(callback, storeLast.events[i]) =
         DueFor(callback, storeLast.events[i])
           * Cardinality({j \in DOMAIN storeLast.events :
                            storeLast.events[j] = storeLast.events[i]})

\* an event for one key was delivered to a global handler while a handler
\* registered for the other key only received nothing
C25_Witness ==
  /\ Len(storeLast.events) = 1
  /\ storeLast.events[1].type = "set"
  /\ \E c1, c2 \in Callbacks :
       /\ c1 # c2
       /\ c1 \in Range(instances[1].changeHandlers)
       /\ c2 \notin Range(instances[1].changeHandlers)
       /\ \E k \in EvKeys :
            /\ k # storeLast.events[1].key
            /\ MapHas(instances[1].keyHandlers, k)
            /\ c2 \in Range(MapGet(instances[1].keyHandlers, k))
       /\ Received(c1, storeLast.events[1]) = 1
       /\ Received(c2, storeLast.events[1]) = 0

\* a 'clear' event was emitted while a key handler was registered
C25_WitnessClear ==
  /\ storeLast.op = "clear"
  /\ storeLast.events # <<>>
  /\ instances[1].keyHandlers # <<>>

\* the cache and the backend hold what the event of the last call tells (of
\* the entries a call sets, the cache of bounded size keeps the last one)
Effected(event) ==
  LET self == instances[storeLast.inst]
      item(key) == native_getItem(backend, _getNamespacedKey(self.namespace, key))
      last == storeLast.events[Len(storeLast.events)]
  IN CASE event.type = "set" ->
            /\ item(event.key) = instance_serializeValue(event.value)
            /\ \/ storeLast.skipCache
               \/ event # last
               \/ LiveEntry(self, event.key, clock) = event.value
       [] event.type = "remove" ->
            /\ item(event.key) = Null
            /\ ~IsLive(self, event.key, clock)
       [] event.type = "clear" ->
            /\ \A key \in EvKeys : item(key) = Null /\ ~IsLive(self, key, clock)

\* C26: handler exception isolation.  When a handler called for an event of a
\* call throws, every handler the event is due to still receives it, the call
\* returns true as a call whose handlers return does, and the cache and the
\* backend hold what the call wrote.
C26_HandlerIsolation ==
  (\E d \in Range(storeLast.delivered) : d.threw)
  => /\ \A callback \in Callbacks, i \in DOMAIN storeLast.events :
          Received(callback, storeLast.events[i]) =
            DueFor(callback, storeLast.events[i])
              * Cardinality({j \in DOMAIN storeLast.events :
                               storeLast.events[j] = storeLast.events[i]})
     /\ storeLast.result = Bool(TRUE)
     /\ \A i \in DOMAIN storeLast.events : Effected(storeLast.events[i])

\* a handler threw and a handler called after it received the event
C26_Witness ==
  \E i, j \in DOMAIN storeLast.delivered :
    /\ i < j
    /\ storeLast.delivered[i].threw
    /\ ~storeLast.delivered[j].threw
    /\ storeLast.delivered[j].event = storeLast.delivered[i].event

\* C27: no empty handler sets.  After every sequence of onKeyChange calls and
\* calls of the removers they return, the per-key handler registry of the
\* instance maps no key to an empty set of handlers: the remover that takes
\* the last handler of a key deletes the entry of the key.
C27_NoEmptyHandlerSets ==
  \A i \in DOMAIN instances[1].keyHandlers : instances[1].keyHandlers[i].v # <<>>

\* a remover took the last handler of a key while the other key has one
C27_Witness ==
  /\ storeLast.op = "onKeyChange.remove"
  /\ ~MapHas(instances[1].keyHandlers, storeLast.key)
  /\ instances[1].keyHandlers # <<>>

(***************************************************************************)
(* Claims about getItem.                                                   *)
(***************************************************************************)
\* C15: cache-first read.  A getItem(k) without skipCache made while the cache
\* holds a live entry for k returns the value of that entry and makes no
\* native call; a getItem(k) with skipCache makes the native getItem call for
\* the namespaced key whether or not a live entry exists.
C15_CacheFirstRead ==
  storeLast.op = "getItem" =>
    IF storeLast.skipCache
      THEN storeLast.calls =
             <<NativeCall("getItem",
                          <<_getNamespacedKey(instances[storeLast.inst].namespace,
                                              storeLast.key)>>)>>
      ELSE storeLast.live =>
             storeLast.result = storeLast.cached /\ storeLast.calls = <<>>

\* C16: default value.  A getItem(k, {default: d}) for a key that is neither
\* live in the cache nor in the backend, as the native read reports, returns d,
\* or null when no default is given; a getItem for a key the backend holds
\* never returns the default in place of the stored value.
C16_DefaultValue ==
  storeLast.op = "getItem" =>
    /\ (~storeLast.live /\ storeLast.stored = Null /\ storeLast.native = "true") =>
         storeLast.result = IF storeLast.value # Undefined
                              THEN storeLast.value ELSE Null
    /\ (storeLast.stored # Null /\ storeLast.value # Undefined) =>
         storeLast.result # storeLast.value

\* C22: hasKey.  A hasKey(k) without skipCache made while the cache holds a
\* live entry for k returns true and makes no native call; every other hasKey(k)
\* makes the native hasKey call for the namespaced key and, when that call
\* resolves, returns whether the backend holds the key.
C22_HasKey ==
  storeLast.op = "hasKey" =>
    IF ~storeLast.skipCache /\ storeLast.live
      THEN storeLast.result = Bool(TRUE) /\ storeLast.calls = <<>>
      ELSE /\ storeLast.calls = <<NativeCall("hasKey", <<LastNamespacedKey>>)>>
           /\ storeLast.native = "true" =>
                storeLast.result = Bool(storeLast.stored # Null)

(***************************************************************************)
(* Claims about the synchronous methods.                                   *)
(***************************************************************************)
\* C23: no synchronous capability.  On a platform whose native module has no
\* synchronous methods every call of a synchronous method fails with a
\* SyncOperationError, whatever the cache holds and whatever default was given.
C23_SyncUnavailable ==
  (~syncAvailable /\ storeLast.op \in SyncMethods)
  => storeLast.result = SyncOperationError

\* two outcomes with the same return value, cache, backend and events
SameOutcome(r1, r2) ==
  /\ r1.result = r2.result
  /\ r1.cache = r2.cache
  /\ r1.backend = r2.backend
  /\ r1.events = r2.events

\* setItemSync and getItemSync do in the current state what setItem and
\* getItem do
SameAsAsync ==
  LET self == instances[1]
  IN /\ \A key \in StoreKeys, skipCache \in BOOLEAN, native \in NativeOutcomes :
          SameOutcome(setItemSync(self, backend, clock, key, SyncValue, skipCache,
                                  TRUE, native),
                      setItem(self, backend, clock, key, SyncValue, skipCache, native))
     /\ \A key \in StoreKeys, skipCache \in BOOLEAN, default \in StoreDefaults,
           nativeOk \in BOOLEAN :
          SameOutcome(getItemSync(self, backend, clock, key, skipCache, default,
                                  TRUE, nativeOk),
                      getItem(self, backend, clock, key, skipCache, default, nativeOk))

\* C24: sync/async equivalence.  On a platform with the native synchronous
\* methods, in every state reached by non-overlapping calls, each method of the
\* instance has a synchronous counterpart whose call gives the same return
\* value, cache, backend and events as the asynchronous call with the same
\* arguments and the same native outcome.
C24_SyncEquivalence ==
  syncAvailable =>
    LET self == instances[1]
        missing == undefinedMethod(self, backend)
    IN /\ SameAsAsync
       /\ \A key \in StoreKeys, native \in NativeOutcomes :
            SameOutcome(missing, removeItem(self, backend, clock, key, native))
       /\ \A key \in StoreKeys, skipCache \in BOOLEAN, nativeOk \in BOOLEAN :
            SameOutcome(missing, hasKey(self, backend, clock, key, skipCache, nativeOk))
       /\ \A nativeOk \in BOOLEAN :
            SameOutcome(missing, getAllKeys(self, backend, clock, nativeOk))
       /\ \A keysOk \in BOOLEAN, native \in NativeOutcomes :
            SameOutcome(missing, clear(self, backend, clock, keysOk, native))

(***************************************************************************)
(* Claims about multiSet and multiGet.                                     *)
(***************************************************************************)
\* serializeValue throws for value
Unserializable(value) == "type" \notin DOMAIN instance_serializeValue(value)

\* C18: multiSet validation.  When some value of the object given to multiSet
\* cannot be serialized, the call fails with a SerializationError or a KeyError
\* and makes no native call.
C18_MultiSetValidation ==
  (/\ storeLast.op = "multiSet"
   /\ \E i \in DOMAIN storeLast.value.props :
        Unserializable(storeLast.value.props[i].v))
  => /\ storeLast.result.t = "throw"
     /\ storeLast.result.error \in {"SerializationError", "KeyError"}
     /\ storeLast.calls = <<>>

\* key was live in the cache when the last call, a call of SpecBatch, started
WasLive(key) ==
  IsLive([cache |-> storeLast.before.cache], key, storeLast.at)

\* the value multiGet owes for key: the cached value of a live key it may
\* read from the cache, else the decoded stored item, null for an absent key
Owed(key) ==
  LET namespacedKey == _getNamespacedKey(instances[storeLast.inst].namespace, key)
      item == native_getItem(storeLast.before.backend, namespacedKey)
  IN IF ~storeLast.skipCache /\ WasLive(key)
       THEN MapGet(storeLast.before.cache.cache, key)
     ELSE IF item = Null THEN Null ELSE instance_deserializeValue(item)

\* C19: multiGet.  multiGet(keys) makes no native call when every listed key
\* is live in the cache and skipCache is not set, and otherwise exactly one
\* native multiGet call for the namespaced keys of exactly the listed keys that
\* are not live in the cache (all of them with skipCache); when it returns, the
\* keys of the returned object are exactly the listed keys, each live key with
\* its cached value and each other key with its decoded stored value, null
\* when the backend does not hold it.
C19_MultiGet ==
  storeLast.op = "multiGet" =>
    LET self == instances[storeLast.inst]
        keys == storeLast.value.keys
        missed(key) == storeLast.skipCache \/ ~WasLive(key)
        missedKeys == SelectSeq(keys, missed)
    IN /\ storeLast.calls =
            IF missedKeys = <<>> THEN <<>>
            ELSE <<NativeCall("multiGet",
                              [i \in DOMAIN missedKeys |->
                                 _getNamespacedKey(self.namespace, missedKeys[i])])>>
       /\ storeLast.result.t # "throw" =>
            /\ MapKeySet(storeLast.result.props) = Range(keys)
            /\ \A key \in Range(keys) :
                 MapGet(storeLast.result.props, key) = Owed(key)

(***************************************************************************)
(* Claims about errors.                                                    *)
(***************************************************************************)
\* C28: key validation.  Every setItem, getItem, removeItem and hasKey whose
\* key is not a string, and every multiGet and multiRemove whose list holds an
\* element that is not a string, fails with a KeyError and makes no native
\* call.
C28_KeyValidation ==
  (/\ storeLast.op \in {"setItem", "getItem", "removeItem", "hasKey",
                         "multiGet", "multiRemove"}
   /\ \E i \in DOMAIN storeLast.value.keys : ~IsStringKey(storeLast.value.keys[i]))
  => /\ storeLast.result = KeyError
     /\ storeLast.calls = <<>>

\* a native call of the last call rejected
BackendFailed == storeLast.native = "reject" /\ storeLast.calls # <<>>

\* C29: backend errors propagate and are not retried.  When a native call
\* rejects during setItem, getItem, removeItem, multiSet, multiGet, multiRemove,
\* clear, getAllKeys or hasKey, whatever options the call was given, the call
\* fails with a StorageError that carries the error code of the method, and
\* the method has made no native call twice.
C29_BackendErrors ==
  (/\ storeLast.op \in {"setItem", "getItem", "removeItem", "multiSet", "multiGet",
                         "multiRemove", "clear", "getAllKeys", "hasKey"}
   /\ BackendFailed)
  => /\ storeLast.result = StorageError(catchCode(storeLast.op))
     /\ \A i, j \in DOMAIN storeLast.calls :
          i # j => storeLast.calls[i].method # storeLast.calls[j].method

(***************************************************************************)
(* Claims about overlapping calls.                                         *)
(***************************************************************************)
\* the writes started that set key in the cache
Setters(key) ==
  {i \in DOMAIN inflight : ~inflight[i].skipCache /\ MapHas(inflight[i].pairs, key)}

\* the value the write whose cache.set(key) ran last gave key
LastMutation(key) ==
  LET last == CHOOSE i \in Setters(key) : \A j \in Setters(key) : j <= i
  IN MapGet(inflight[last].pairs, key)

\* two writes that set key in the cache overlapped: the later one started
\* before the earlier one finished
Overlapped(key) ==
  \E i, j \in Setters(key) : i < j /\ inflight[i].doneAt > inflight[j].at

\* C30: overlapping writes.  When two setItem or multiSet calls of one
\* instance that set the same key in the cache overlap, then once every write
\* has finished the cache holds for the key the value of the write whose
\* cache.set ran last, in whatever order the native calls resolved.
C30_OverlappingWrites ==
  (\A i \in DOMAIN inflight : inflight[i].doneAt # 0)
  => \A key \in OvKeys :
       Overlapped(key) =>
         /\ MapHas(instances[1].cache.cache, key)
         /\ MapGet(instances[1].cache.cache, key) = LastMutation(key)

\* two overlapping writes gave a key different values, the native call of
\* the write that started first took effect last, and both have finished:
\* the backend holds the value of the first write
C30_Witness ==
  /\ \A i \in DOMAIN inflight : inflight[i].doneAt # 0
  /\ \E key \in OvKeys, i, j \in DOMAIN inflight :
       /\ {i, j} \subseteq Setters(key)
       /\ i < j
       /\ inflight[i].doneAt > inflight[j].doneAt
       /\ inflight[i].native = "true" /\ inflight[j].native = "true"
       /\ MapGet(inflight[i].pairs, key) # MapGet(inflight[j].pairs, key)
       /\ native_getItem(backend, _getNamespacedKey(instances[1].namespace, key))
            = instance_serializeValue(MapGet(inflight[i].pairs, key))

(***************************************************************************)
(* Claims about decoding.                                                  *)
(***************************************************************************)
\* the item is malformed: its type is missing or unknown, its text is not
\* JSON, its base64 text is not base64, it is compressed without
\* originalSize, or its bytes do not fill whole elements of its binaryType
Malformed(item) ==
  \/ NoType(item)
  \/ item.type \notin {"null", "string", "number", "boolean", "object", "binary"}
  \/ item.type = "object" /\ JSON_parse(item.value.s).t = "throw"
  \/ /\ item.type = "binary"
     /\ \/ ~atob(item.value.s).ok
        \/ item.isCompressed /\ item.originalSize = Undefined
        \/ /\ item.binaryType \in BinaryKinds
           /\ Len(decompressBinary(atob(item.value.s).codes,
                                   IF IsInt(item.originalSize)
                                     THEN item.originalSize.n ELSE 0,
                                   item.isCompressed))
                % ElementWidth(item.binaryType) # 0

\* C31: lenient decode.  deserializeValue never throws, and an item whose
\* type is missing or unknown, whose JSON text cannot be parsed, whose base64
\* text is bad, that is compressed without originalSize or whose byte length
\* is not a multiple of the element width decodes to null.
C31_LenientDecode ==
  codecPc \in {"deserialized", "instance"} =>
    /\ codecOut.t # "throw"
    /\ Malformed(codecItem) => codecOut = Null

(***************************************************************************)
(* Claims about the handles of a namespace.                                *)
(***************************************************************************)
\* C32: one coordinator per namespace.  The handles getInstance returns for
\* one namespace share one cache and one handler registry: a getItem(k) through
\* any handle that follows a setItem(k, v) through any handle returns v, and
\* the event of a setItem reaches the handlers registered through any handle.
C32_OneCoordinator ==
  /\ \A id1, id2 \in DOMAIN instances :
       instances[id1].namespace = instances[id2].namespace =>
         /\ instances[id1].cache.cache = instances[id2].cache.cache
         /\ instances[id1].changeHandlers = instances[id2].changeHandlers
  /\ (/\ storeLast.op = "getItem"
      /\ storeLast.prev.op = "setItem"
      /\ storeLast.prev.key = storeLast.key
      /\ storeLast.prev.result = Bool(TRUE))
     => storeLast.result = storeLast.prev.value
  /\ (storeLast.op = "setItem" /\ storeLast.events # <<>>)
     => \A id \in DOMAIN instances :
          \A callback \in Range(instances[id].changeHandlers) :
            Received(callback, storeLast.events[1]) >= 1

(***************************************************************************)
(* Claims about skipCache reads.                                           *)
(***************************************************************************)
\* C35: skipCache reads leave the cache alone.  A getItem or multiGet called
\* with skipCache leaves the cache as it was: its entries, their order and
\* expiry times, and the hit, miss, set and eviction counters.
C35_SkipCacheReads ==
  (storeLast.op \in {"getItem", "multiGet"} /\ storeLast.skipCache)
  => instances[1].cache = storeLast.before.cache

\* a multiGet with skipCache returned the stored value of a key the cache
\* does not hold
C35_Witness ==
  /\ storeLast.op = "multiGet"
  /\ storeLast.skipCache
  /\ storeLast.result.t = "object"
  /\ \E key \in Range(storeLast.value.keys) :
       /\ MapGet(storeLast.result.props, key) # Null
       /\ ~MapHas(instances[1].cache.cache, key)

\* a getItem with skipCache returned the stored value of a key the cache
\* does not hold
C35_WitnessGetItem ==
  /\ storeLast.op = "getItem"
  /\ storeLast.skipCache
  /\ storeLast.result.t = "string"
  /\ ~MapHas(instances[1].cache.cache, storeLast.value.keys[1])

(***************************************************************************)
(* Claims about interleaved calls.                                         *)
(***************************************************************************)
\* the entry of the cache for key: its value, Undefined for no entry
EntryOf(c, key) == IF MapHas(c.cache, key) THEN MapGet(c.cache, key) ELSE Undefined

\* call j touched the entry of key in the cache when it started
Touches(j, key) ==
  \/ inflight[j].op \in MixWrites \cup MixRemoves /\ key \in Range(inflight[j].keys)
  \/ inflight[j].op = "clear"

\* C36: no stale read-fill.  When the part after the await of a getItem(k)
\* or multiGet that missed the cache runs, it leaves the cache entry of k as
\* it is if a setItem or multiSet that wrote k, or a removeItem, multiRemove
\* or clear that removed k, started after the read did: the read neither
\* overwrites the newer value nor inserts k again.
C36_NoStaleReadFill ==
  [][\A i \in DOMAIN inflight :
       (/\ inflight[i].op \in MixReads
        /\ inflight[i].phase = "resolved"
        /\ inflight'[i].phase = "done")
       => \A key \in inflight[i].missed :
            (\E j \in DOMAIN inflight : j > i /\ Touches(j, key))
            => EntryOf(instances'[1].cache, key) = EntryOf(instances[1].cache, key)]_vars

\* C37: quiescent coherence.  When every native call succeeds, then once no
\* call is in flight every key the cache holds is in the backend under its
\* namespaced key with an item that decodes to the cached value.
C37_QuiescentCoherence ==
  (\A i \in DOMAIN inflight : inflight[i].phase = "done")
  => \A key \in MixKeys :
       MapHas(instances[1].cache.cache, key) =>
         LET item == native_getItem(backend,
                                    _getNamespacedKey(instances[1].namespace, key))
         IN /\ item # Null
            /\ instance_deserializeValue(item) = MapGet(instances[1].cache.cache, key)

(***************************************************************************)
(* Claims about a multiSet that fails before its native call.              *)
(***************************************************************************)
\* C38: a multiSet that fails validation leaves the instance as it was.  When
\* some value of the object given to multiSet cannot be serialized, the cache
\* after the call is the cache before it, with no entry for a pair before the
\* failing one nor for the failing one, the backend is the backend before it,
\* and no event is emitted.
C38_MultiSetAtomic ==
  (/\ storeLast.op = "multiSet"
   /\ \E i \in DOMAIN storeLast.value.props :
        Unserializable(storeLast.value.props[i].v))
  => /\ instances[1].cache = storeLast.before.cache
     /\ backend = storeLast.before.backend
     /\ storeLast.events = <<>>

(***************************************************************************)
(* Claims about the synchronous writes of the PureStorage object.          *)
(***************************************************************************)
\* how often the last call of a PureStorage method called callback with event
Notified(callback, event) ==
  Cardinality({i \in DOMAIN storeLast.notified :
                 /\ storeLast.notified[i].handler = callback
                 /\ storeLast.notified[i].event = event})

\* how often an event for key is due to callback: once as a handler
\* registered with PureStorage.onChange and once as a handler of key
NotifyDue(callback, key) ==
  (IF callback \in Range(globalChangeHandlers) THEN 1 ELSE 0)
  + (IF MapHas(globalKeyHandlers, key)
        /\ callback \in Range(MapGet(globalKeyHandlers, key)) THEN 1 ELSE 0)

====
